---- MODULE Spec2Model ----
(***************************************************************************)
(* Verification model of the assistive obstacle-detection system           *)
(* (standalone assistant under "src/Nueva carpeta", browser assistant      *)
(* under src/app.py).  Times are integers in milliseconds.                 *)
(***************************************************************************)
EXTENDS Integers, Sequences, FiniteSets, TLC

VARIABLES
    now,              \* time.time(), in ms
    \* ---- ObstacleAlert (modules/obstacle_alert.py)
    alert_enabled,    \* ObstacleAlert.enabled
    alert_queue,      \* ObstacleAlert.alert_queue
    last_alert_time,  \* ObstacleAlert.last_alert_time: alert_key -> time
    alert_pc,         \* position of the _process_alerts worker: "idle" | "playing"
    play_until,       \* earliest time at which the tone being played returns
    alert_log,        \* history: what the worker did with each message it took
    nfired,           \* history: number of alert_obstacle/alert_noise calls
    call,             \* a single API call and its result (call specifications)
    \* ---- VoiceAnnouncer (modules/voice_announcer.py)
    voice_enabled,    \* VoiceAnnouncer.enabled
    engine_name,      \* VoiceAnnouncer.engine_name
    engine,           \* VoiceAnnouncer.engine is not None
    voice_queue,      \* VoiceAnnouncer.voice_queue
    last_announcement_time,  \* object name -> time of the last accepted announcement
    is_speaking,      \* VoiceAnnouncer.is_speaking (the worker is inside _speak)
    ann_pc,           \* position inside announce_close_object: "idle" | "evict" | "put"
    ann_message,      \* the message announce_close_object is about to queue
    ann_result,       \* history: the last announce_close_object call
    \* ---- ObstacleAssistant (obstacle_assistant.py)
    frame_queue,      \* ObstacleAssistant.frame_queue
    frames_offered,   \* history: frames the capture loop has offered to the queue
    frames_taken,     \* history: frames the detection loop has taken
    detection_queue,  \* ObstacleAssistant.detection_queue (feeds the GUI)
    det_pc,           \* position of _detection_thread: "idle" | "loop" | "announce"
    frame,            \* the detections of the frame being processed
    det_idx,          \* index of the detection the for loop is at
    objects_to_announce,  \* the list built by the for loop
    ann_idx,          \* history: index of the detection being announced
    frame_yield,      \* history: what each detection of the frame has produced
    \* ---- Browser variant (app.py, Streamlit-Ollama/modules/audio_module.py)
    detection_active,     \* st.session_state.detection_active
    last_detection_time,  \* st.session_state.last_detection_time
    last_description,     \* st.session_state.last_description
    audio_queue,          \* AudioManager.audio_queue
    is_playing,           \* AudioManager.is_playing
    cycle,                \* history: the last call of process_video_and_detection
    audio_pc,             \* position of _process_audio_queue: "idle" | "got" | "playing"
    sp_pc,                \* position inside AudioManager.speak
    sp_call,              \* history: the last AudioManager.speak call
    \* ---- Description cache and LanguageAgent (modules/database_manager.py,
    \*      Streamlit-Ollama/agents/language_agent.py)
    pg_table,         \* cache_descripciones as the direct backend sees it
    sb_table,         \* cache_descripciones as the managed backend sees it
    sb_unique,        \* whether the managed table carries UNIQUE(hash_objetos)
    db_pc,            \* position of each caller inside a DatabaseManager call
    db_req,           \* each caller's call in progress (arguments, rows read)
    db_hist,          \* history: calls committed, per backend
    use_supabase,     \* DatabaseManager.use_supabase
    client,           \* LanguageAgent.client: "ok" | "none"
    gen,              \* history: the last generate_description call
    fn_call,          \* a call of a pure function and its result
    \* ---- User profiles (modules/database_manager.py), VisionAgent, camera,
    \*      ObstacleAssistant life cycle
    pg_users,         \* table usuarios as the direct backend sees it
    sb_users,         \* table usuarios as the managed backend sees it
    usr,              \* history: the last profile call and what it returned
    vision,           \* VisionAgent: frame_count, and the last detect_objects call
    camera,           \* st.session_state.camera: "none" | "open"
    audio_det,        \* st.session_state.audio_detector (modules/audio_detector.py)
    shared,           \* ObstacleAssistant: current_detections, its lock, the records
    alert_calls,      \* ObstacleAlert: calls in progress in each thread
    asst              \* ObstacleAssistant: running flag, components, loop positions

alertVars == <<alert_enabled, alert_queue, last_alert_time, alert_pc, play_until,
               alert_log, nfired>>
voiceVars == <<voice_enabled, engine_name, engine, voice_queue, last_announcement_time,
               is_speaking, ann_pc, ann_message, ann_result>>
pipeVars == <<frame_queue, frames_offered, frames_taken, detection_queue, det_pc, frame,
              det_idx, objects_to_announce, ann_idx, frame_yield>>
browserVars == <<detection_active, last_detection_time, last_description, audio_queue,
                 is_playing, cycle, audio_pc, sp_pc, sp_call>>
agentVars == <<pg_table, sb_table, sb_unique, db_pc, db_req, db_hist, use_supabase,
               client, gen, fn_call>>
sessionVars == <<pg_users, sb_users, usr, vision, camera, audio_det, shared, alert_calls, asst>>
nonVoiceVars == <<now, alertVars, call, pipeVars, browserVars, agentVars, sessionVars>>

(***************************************************************************)
(* Configuration (Nueva carpeta/config.py), durations in ms.               *)
(***************************************************************************)
ALERT_ENABLED == TRUE
ALERT_CLOSE_FREQUENCY == 900
ALERT_MEDIUM_FREQUENCY == 600
ALERT_FAR_FREQUENCY == 300
ALERT_DURATION == 100
ALERT_DEBOUNCE_TIME == 300

\* queue.Queue(maxsize): maxsize <= 0 means the queue has no capacity limit
AlertQueueMaxsize == 0

\* queue.Queue.full()
QueueFull(q, maxsize) == maxsize > 0 /\ Len(q) >= maxsize

(***************************************************************************)
(* Bounds of the model.                                                    *)
(***************************************************************************)
MaxAlerts == 3       \* alert_obstacle/alert_noise calls in one behaviour
MaxAlertTicks == 3   \* clock ticks of AlertTickMs in the alert specification
AlertTickMs == ALERT_DEBOUNCE_TIME \div 3

NoCall == [op |-> "none"]

Proximities == {"close", "medium", "far"}
\* obstacle_type values: those of get_obstacle_type, the parameter's default
\* 'unknown', and a class name of the vehicle list of alert_obstacle
ObstacleTypes == {"person", "vehicle", "furniture", "object", "unknown", "car"}
Priorities == {"high", "normal", "low"}
NoiseTypes == {"siren", "traffic", "voice", "general"}

\* int(frequency * 1.1) and int(frequency * 0.9) on the configured integers
ScalePerson(frequency) == (frequency * 11) \div 10
ScaleVehicle(frequency) == (frequency * 9) \div 10

VehicleClassNames == {"car", "bus", "truck", "motorcycle", "bicycle"}

\* Mutant: the medium test (lines 168-169) is missing
Suppressed_FarOnly(proximity, is_center) == proximity = "far" /\ ~is_center

\* alert_obstacle, lines 165-169: far/medium objects outside the centre are ignored
Suppressed(proximity, is_center) ==
    \/ proximity = "far" /\ ~is_center
    \/ proximity = "medium" /\ ~is_center

\* alert_obstacle, lines 172-180
BaseFrequency(proximity) ==
    IF proximity = "close" THEN ALERT_CLOSE_FREQUENCY
    ELSE IF proximity = "medium" THEN ALERT_MEDIUM_FREQUENCY
    ELSE ALERT_FAR_FREQUENCY

BaseDuration(proximity) ==
    IF proximity = "close" THEN (ALERT_DURATION * 3) \div 2
    ELSE IF proximity = "medium" THEN ALERT_DURATION
    ELSE ALERT_DURATION \div 2

\* alert_obstacle, lines 183-186
TypeFrequency(frequency, obstacle_type) ==
    IF obstacle_type = "person" THEN ScalePerson(frequency)
    ELSE IF obstacle_type \in VehicleClassNames THEN ScaleVehicle(frequency)
    ELSE frequency

\* alert_obstacle, lines 188-195: the Alert Message (fired is history: the time
\* of the call that made it)
ObstacleMessage(proximity, obstacle_type, priority, t) ==
    [type |-> "obstacle",
     frequency |-> TypeFrequency(BaseFrequency(proximity), obstacle_type),
     duration |-> BaseDuration(proximity),
     priority |-> priority,
     source |-> obstacle_type,
     fired |-> t]

\* alert_noise, lines 215-239
NoiseMessage(noise_type, t) ==
    [type |-> "noise",
     frequency |-> IF noise_type = "siren" THEN 1200
                   ELSE IF noise_type = "traffic" THEN 400
                   ELSE IF noise_type = "voice" THEN 500
                   ELSE ALERT_MEDIUM_FREQUENCY,
     duration |-> IF noise_type = "siren" THEN ALERT_DURATION * 2
                  ELSE IF noise_type = "traffic" THEN ALERT_DURATION
                  ELSE IF noise_type = "voice" THEN (ALERT_DURATION * 8) \div 10
                  ELSE ALERT_DURATION,
     priority |-> IF noise_type = "siren" THEN "high"
                  ELSE IF noise_type = "voice" THEN "low"
                  ELSE "normal",
     source |-> noise_type,
     fired |-> t]

\* alert_queue.put(alert_data, block=False): queue.Full is swallowed
PutNoWait(q, maxsize, m) == IF QueueFull(q, maxsize) THEN q ELSE Append(q, m)

\* The messages alert_obstacle adds to the queue (none or one)
AlertObstacleMessages(enabled, proximity, obstacle_type, priority, is_center, t) ==
    IF ~enabled THEN <<>>
    ELSE IF Suppressed(proximity, is_center) THEN <<>>
    ELSE <<ObstacleMessage(proximity, obstacle_type, priority, t)>>

\* _play_alert, line 90: alert_key = f"{alert_type}_{frequency}"
AlertKey(m) == <<m.type, m.frequency>>

\* Mutants of the debounce test: no test at all; any key's last tone counts
Debounced_Never(last, key, t) == FALSE
Debounced_AnyKey(last, key, t) ==
    \E k \in DOMAIN last : t - last[k] < ALERT_DEBOUNCE_TIME

\* _play_alert, lines 92-95
Debounced(last, key, t) ==
    key \in DOMAIN last /\ t - last[key] < ALERT_DEBOUNCE_TIME

\* _play_alert, line 97
Stamp(last, key, t) ==
    [k \in DOMAIN last \cup {key} |-> IF k = key THEN t ELSE last[k]]

\* _detection_thread, lines 315-320
PipelinePriority(proximity, is_center) ==
    IF is_center /\ proximity = "close" THEN "high"
    ELSE IF is_center \/ proximity = "close" THEN "normal"
    ELSE "low"

(***************************************************************************)
(* VoiceAnnouncer.                                                         *)
(***************************************************************************)
VoiceQueueMaxsize == 10
ANNOUNCEMENT_DEBOUNCE == 2000
ENABLE_VOICE_DESCRIPTIONS == TRUE

\* _translate_to_spanish: the lookup table (exact match on the lower-case name)
Translations ==
    [n \in {"person", "car", "bus", "truck", "motorcycle", "bicycle", "chair",
            "table", "couch", "bed", "door", "stairs", "dog", "cat", "backpack",
            "handbag", "umbrella", "bottle", "cup", "book", "phone", "cell phone",
            "mobile phone", "laptop", "tv", "keyboard", "mouse", "vase", "bowl",
            "clock", "scissors", "toothbrush"} |->
       CASE n = "person" -> "una persona"
         [] n = "car" -> "un auto"
         [] n = "bus" -> "un autobús"
         [] n = "truck" -> "un camión"
         [] n = "motorcycle" -> "una motocicleta"
         [] n = "bicycle" -> "una bicicleta"
         [] n = "chair" -> "una silla"
         [] n = "table" -> "una mesa"
         [] n = "couch" -> "un sofá"
         [] n = "bed" -> "una cama"
         [] n = "door" -> "una puerta"
         [] n = "stairs" -> "escaleras"
         [] n = "dog" -> "un perro"
         [] n = "cat" -> "un gato"
         [] n = "backpack" -> "una mochila"
         [] n = "handbag" -> "un bolso"
         [] n = "umbrella" -> "un paraguas"
         [] n = "bottle" -> "una botella"
         [] n = "cup" -> "una taza"
         [] n = "book" -> "un libro"
         [] n = "phone" -> "un teléfono"
         [] n = "cell phone" -> "un celular"
         [] n = "mobile phone" -> "un celular"
         [] n = "laptop" -> "una computadora"
         [] n = "tv" -> "un televisor"
         [] n = "keyboard" -> "un teclado"
         [] n = "mouse" -> "un ratón"
         [] n = "vase" -> "un jarrón"
         [] n = "bowl" -> "un tazón"
         [] n = "clock" -> "un reloj"
         [] n = "scissors" -> "unas tijeras"
         [] n = "toothbrush" -> "un cepillo de dientes"]

\* _translate_to_spanish for lower-case names: an exact match, else the name with
\* an article (the substring search finds nothing for the names used here)
_translate_to_spanish(object_name) ==
    IF object_name \in DOMAIN Translations THEN Translations[object_name]
    ELSE "un " \o object_name

\* Mutant of _generate_message: the vehicle wording for every type
_generate_message_Cuidado(spanish_name, obstacle_type) ==
    "¡Cuidado! Hay " \o spanish_name \o " muy cerca de ti"

\* _generate_message
_generate_message(spanish_name, obstacle_type) ==
    IF obstacle_type = "vehicle"
    THEN "¡Cuidado! Hay " \o spanish_name \o " muy cerca de ti"
    ELSE "¡Atención! Hay " \o spanish_name \o " muy cerca de ti"

\* get_obstacle_type (agents/vision_agent.py)
get_obstacle_type(class_name) ==
    IF class_name = "person" THEN "person"
    ELSE IF class_name \in {"car", "bus", "truck", "motorcycle", "bicycle"} THEN "vehicle"
    ELSE IF class_name \in {"chair", "table", "couch", "bed", "door", "stairs"}
         THEN "furniture"
    ELSE "object"

\* Mutant of the announcement debounce: one timestamp for all names
VoiceDebounced_AnyName(last, object_name, t) ==
    \E n \in DOMAIN last : t - last[n] < ANNOUNCEMENT_DEBOUNCE

\* announce_close_object, lines 256-261
VoiceDebounced(last, object_name, t) ==
    object_name \in DOMAIN last /\ t - last[object_name] < ANNOUNCEMENT_DEBOUNCE

\* The states __init__ can end in: the local engine built, or its construction
\* failed (the announcer disables itself); the cloud engine keeps engine = None
VoiceConfigs ==
    { [name |-> "pyttsx3", engine |-> TRUE,  enabled |-> ENABLE_VOICE_DESCRIPTIONS],
      [name |-> "pyttsx3", engine |-> FALSE, enabled |-> FALSE],
      [name |-> "gtts",    engine |-> FALSE, enabled |-> ENABLE_VOICE_DESCRIPTIONS],
      [name |-> "gtts",    engine |-> FALSE, enabled |-> FALSE] }

NoResult == [op |-> "none"]

VoiceInit ==
    /\ \E c \in VoiceConfigs :
         /\ engine_name = c.name
         /\ engine = c.engine
         /\ voice_enabled = c.enabled
    /\ voice_queue = <<>>
    /\ last_announcement_time = << >>
    /\ is_speaking = FALSE
    /\ ann_pc = "idle"
    /\ ann_message = ""
    /\ ann_result = NoResult

MaxVoiceTicks == 10
VoiceTickMs == ANNOUNCEMENT_DEBOUNCE \div 2
VoiceNames == {"chair", "table"}

PrevAccepted(object_name) ==
    IF object_name \in DOMAIN last_announcement_time
    THEN last_announcement_time[object_name] ELSE -1

AnnounceResult(object_name, outcome) ==
    [op |-> "announce", name |-> object_name, t |-> now,
     prev |-> PrevAccepted(object_name), outcome |-> outcome,
     full |-> FALSE, evicted |-> "none", queued |-> FALSE, at_tail |-> FALSE]

\* announce_close_object up to the full() test of line 281
announce_close_object(object_name, obstacle_type) ==
    /\ ann_pc = "idle"
    /\ IF ~voice_enabled
       THEN /\ ann_result' = AnnounceResult(object_name, "disabled")
            /\ UNCHANGED <<last_announcement_time, ann_pc, ann_message>>
       ELSE IF ~engine /\ engine_name = "pyttsx3"
       THEN /\ ann_result' = AnnounceResult(object_name, "no_engine")
            /\ UNCHANGED <<last_announcement_time, ann_pc, ann_message>>
       ELSE IF VoiceDebounced(last_announcement_time, object_name, now)
       THEN /\ ann_result' = AnnounceResult(object_name, "debounced")
            /\ UNCHANGED <<last_announcement_time, ann_pc, ann_message>>
       ELSE /\ last_announcement_time' =
                 Stamp(last_announcement_time, object_name, now)
            /\ ann_message' =
                 _generate_message(_translate_to_spanish(object_name), obstacle_type)
            /\ ann_result' =
                 [AnnounceResult(object_name, "accepted") EXCEPT
                     !.full = QueueFull(voice_queue, VoiceQueueMaxsize)]
            /\ ann_pc' = IF QueueFull(voice_queue, VoiceQueueMaxsize)
                         THEN "evict" ELSE "put"
    /\ UNCHANGED <<voice_enabled, engine_name, engine, voice_queue, is_speaking>>

\* Mutant of get_nowait: the newest item is taken
GetNoWait_Newest(q) == SubSeq(q, 1, Len(q) - 1)

\* queue.Queue.get_nowait: the queue without its oldest item
GetNoWait(q) == Tail(q)

\* lines 283-287: old_msg = self.voice_queue.get_nowait(), queue.Empty is passed
AnnounceEvict ==
    /\ ann_pc = "evict"
    /\ IF voice_queue = <<>>
       THEN /\ ann_result' = [ann_result EXCEPT !.evicted = "empty"]
            /\ UNCHANGED voice_queue
       ELSE /\ voice_queue' = GetNoWait(voice_queue)
            /\ ann_result' = [ann_result EXCEPT
                                 !.evicted = IF voice_queue' = Tail(voice_queue)
                                             THEN "oldest" ELSE "other"]
    /\ ann_pc' = "put"
    /\ UNCHANGED <<nonVoiceVars, voice_enabled, engine_name, engine,
                   last_announcement_time, is_speaking, ann_message>>

\* line 289: self.voice_queue.put(message, block=False); queue.Full is caught
\* by the handler of line 292 and the message is lost
VoiceQueuePut ==
    /\ ann_pc = "put"
    /\ voice_queue' = PutNoWait(voice_queue, VoiceQueueMaxsize, ann_message)
    /\ ann_result' = [ann_result EXCEPT
                         !.queued = ~QueueFull(voice_queue, VoiceQueueMaxsize),
                         !.at_tail = /\ voice_queue' # <<>>
                                     /\ voice_queue'[Len(voice_queue')] = ann_message
                                     /\ Len(voice_queue') = Len(voice_queue) + 1]
    /\ ann_pc' = "idle"
    /\ ann_message' = ""
    /\ UNCHANGED <<voice_enabled, engine_name, engine, last_announcement_time,
                   is_speaking>>

AnnouncePut == VoiceQueuePut /\ UNCHANGED nonVoiceVars

\* _process_voice_queue: text = self.voice_queue.get(timeout=1); is_speaking = True
VoiceGet ==
    /\ voice_enabled
    /\ ~is_speaking
    /\ voice_queue # <<>>
    /\ voice_queue' = Tail(voice_queue)
    /\ is_speaking' = TRUE
    /\ UNCHANGED <<nonVoiceVars, voice_enabled, engine_name, engine,
                   last_announcement_time, ann_pc, ann_message, ann_result>>

\* _speak returns; is_speaking = False
VoiceDone ==
    /\ is_speaking
    /\ is_speaking' = FALSE
    /\ UNCHANGED <<nonVoiceVars, voice_enabled, engine_name, engine,
                   voice_queue, last_announcement_time, ann_pc, ann_message,
                   ann_result>>

VoiceTick ==
    /\ now < MaxVoiceTicks * VoiceTickMs
    /\ now' = now + VoiceTickMs
    /\ UNCHANGED <<alertVars, call, voiceVars, pipeVars, browserVars, agentVars, sessionVars>>

AnnounceStep ==
    /\ \E n \in VoiceNames : announce_close_object(n, get_obstacle_type(n))
    /\ UNCHANGED nonVoiceVars

NextVoice ==
    \/ AnnounceStep
    \/ AnnounceEvict
    \/ AnnouncePut
    \/ VoiceGet
    \/ VoiceDone
    \/ VoiceTick

(***************************************************************************)
(* ObstacleAlert operations.                                               *)
(***************************************************************************)
\* The calls the alert specification makes: a few detections and noises with
\* distinct and with equal debounce keys
TimedObstacles ==
    { <<"medium", "object", TRUE>>, <<"close", "person", TRUE>>,
      <<"far", "object", FALSE>> }
TimedNoises == {"siren", "general"}

\* alert_obstacle: the queue after the call
AlertObstaclePut(q, enabled, proximity, obstacle_type, priority, is_center, t) ==
    LET ms == AlertObstacleMessages(enabled, proximity, obstacle_type, priority,
                                    is_center, t)
    IN IF ms = <<>> THEN q ELSE PutNoWait(q, AlertQueueMaxsize, ms[1])

alert_obstacle(proximity, obstacle_type, priority, is_center) ==
    /\ nfired < MaxAlerts
    /\ nfired' = nfired + 1
    /\ alert_queue' = AlertObstaclePut(alert_queue, alert_enabled, proximity,
                                       obstacle_type, priority, is_center, now)
    /\ UNCHANGED <<now, alert_enabled, last_alert_time, alert_pc, play_until,
                   alert_log, call, voiceVars, pipeVars, browserVars, agentVars, sessionVars>>

alert_noise(noise_type) ==
    /\ nfired < MaxAlerts
    /\ nfired' = nfired + 1
    /\ alert_queue' =
         IF ~alert_enabled THEN alert_queue
         ELSE PutNoWait(alert_queue, AlertQueueMaxsize, NoiseMessage(noise_type, now))
    /\ UNCHANGED <<now, alert_enabled, last_alert_time, alert_pc, play_until,
                   alert_log, call, voiceVars, pipeVars, browserVars, agentVars, sessionVars>>

LogEntry(m, outcome) ==
    [key |-> AlertKey(m), fired |-> m.fired, taken |-> now, outcome |-> outcome]

RECURSIVE FirstHigh(_, _)
\* position of the first message of high priority from position i on, 0 if none
FirstHigh(q, i) ==
    IF i > Len(q) THEN 0
    ELSE IF q[i].priority = "high" THEN i
    ELSE FirstHigh(q, i + 1)

\* Mutant of the worker's get: a waiting message of high priority is taken first
QueueGet_HighFirst(q) ==
    LET i == IF FirstHigh(q, 1) = 0 THEN 1 ELSE FirstHigh(q, 1)
    IN  [item |-> q[i],
         rest |-> SubSeq(q, 1, i - 1) \o SubSeq(q, i + 1, Len(q))]

\* queue.Queue.get on a queue that holds a message: the oldest message, and the
\* queue without it
QueueGet(q) == [item |-> Head(q), rest |-> Tail(q)]

\* _process_alerts takes the head of the queue and runs _play_alert on it.  The
\* tone blocks the worker for at least its duration, unless the audio backend
\* fails (the error is logged and the call returns at once).
_process_alerts ==
    /\ alert_pc = "idle"
    /\ alert_queue # <<>>
    /\ LET m == QueueGet(alert_queue).item
           key == AlertKey(m)
       IN /\ alert_queue' = QueueGet(alert_queue).rest
          /\ IF ~alert_enabled
             THEN /\ alert_log' = Append(alert_log, LogEntry(m, "disabled"))
                  /\ UNCHANGED <<last_alert_time, alert_pc, play_until>>
             ELSE IF Debounced(last_alert_time, key, now)
             THEN /\ alert_log' = Append(alert_log, LogEntry(m, "debounced"))
                  /\ UNCHANGED <<last_alert_time, alert_pc, play_until>>
             ELSE /\ last_alert_time' = Stamp(last_alert_time, key, now)
                  /\ alert_log' = Append(alert_log, LogEntry(m, "played"))
                  /\ alert_pc' = "playing"
                  /\ \E backend_ok \in BOOLEAN :
                       play_until' = IF backend_ok THEN now + m.duration ELSE now
    /\ UNCHANGED <<now, alert_enabled, nfired, call, voiceVars, pipeVars, browserVars, agentVars, sessionVars>>

\* _play_pygame_beep / _play_system_beep return: the worker loops
PlayReturns ==
    /\ alert_pc = "playing"
    /\ now >= play_until
    /\ alert_pc' = "idle"
    /\ play_until' = 0
    /\ UNCHANGED <<now, alert_enabled, alert_queue, last_alert_time,
                   alert_log, nfired, call, voiceVars, pipeVars, browserVars, agentVars, sessionVars>>

\* set_enabled: disabling drains the queue
set_enabled(enabled) ==
    /\ enabled # alert_enabled
    /\ alert_enabled' = enabled
    /\ alert_queue' = IF enabled THEN alert_queue ELSE <<>>
    /\ UNCHANGED <<now, last_alert_time, alert_pc, play_until, alert_log, nfired, call,
                   voiceVars, pipeVars, browserVars, agentVars, sessionVars>>

\* Time passes.  The worker is never late by a whole tick: blocked in
\* alert_queue.get it takes a waiting message, and a tone that is over returns,
\* before the clock moves on.
AlertTick ==
    /\ now < MaxAlertTicks * AlertTickMs
    /\ ~(alert_pc = "idle" /\ alert_queue # <<>>)
    /\ ~(alert_pc = "playing" /\ now >= play_until)
    /\ now' = now + AlertTickMs
    /\ UNCHANGED <<alertVars, call, voiceVars, pipeVars, browserVars, agentVars, sessionVars>>

(***************************************************************************)
(* ObstacleAssistant: capture loop, detection loop, GUI feed.              *)
(***************************************************************************)
FrameQueueMaxsize == 2
DetectionQueueMaxsize == 10

MaxFrames == 3       \* frames the capture loop offers in one behaviour
MaxPipeTicks == 1    \* clock ticks of VoiceTickMs in the pipeline specification

PersonScene == << [name |-> "person", proximity |-> "close", is_center |-> TRUE] >>

\* What detect_objects returns for the frames of the model (center zone first)
Scenes ==
    { PersonScene,
      << [name |-> "chair", proximity |-> "medium", is_center |-> TRUE],
         [name |-> "car", proximity |-> "far", is_center |-> FALSE] >>,
      << [name |-> "person", proximity |-> "close", is_center |-> TRUE],
         [name |-> "person", proximity |-> "close", is_center |-> FALSE] >>,
      << [name |-> "car", proximity |-> "close", is_center |-> TRUE] >> }

ZeroYield ==
    [gui |-> 0, alerts |-> 0, frequency |-> 0, duration |-> 0, calls |-> 0, voices |-> 0,
     text |-> ""]

PipeInit ==
    /\ frame_queue = <<>>
    /\ frames_offered = 0
    /\ frames_taken = 0
    /\ detection_queue = <<>>
    /\ det_pc = "idle"
    /\ frame = <<>>
    /\ det_idx = 0
    /\ objects_to_announce = <<>>
    /\ ann_idx = 0
    /\ frame_yield = <<>>

\* _video_capture_thread, lines 247-257: the frame is put only when full() is
\* false; the handler of queue.Full cannot run, the detection loop only removes
OfferFrame(q, f) ==
    IF ~QueueFull(q, FrameQueueMaxsize) THEN Append(q, f) ELSE q

_video_capture_thread(scene) ==
    /\ frames_offered < MaxFrames
    /\ frames_offered' = frames_offered + 1
    /\ frame_queue' = OfferFrame(frame_queue,
                                 [id |-> frames_offered + 1, scene |-> scene])
    /\ UNCHANGED <<now, alertVars, call, voiceVars, browserVars, agentVars, sessionVars, frames_taken,
                   detection_queue, det_pc, frame, det_idx, objects_to_announce,
                   ann_idx, frame_yield>>

\* _detection_thread, lines 277-297: take a frame, run detect_objects
DetectFrame ==
    /\ det_pc = "idle"
    /\ frame_queue # <<>>
    /\ frame' = Head(frame_queue).scene
    /\ frame_queue' = Tail(frame_queue)
    /\ frames_taken' = frames_taken + 1
    /\ det_pc' = IF frame' = <<>> THEN "idle" ELSE "loop"
    /\ det_idx' = 1
    /\ objects_to_announce' = <<>>
    /\ ann_idx' = 0
    /\ frame_yield' = [i \in 1..Len(frame') |-> ZeroYield]
    /\ UNCHANGED <<now, alertVars, call, voiceVars, browserVars, agentVars, sessionVars, frames_offered,
                   detection_queue>>

\* line 335
should_announce(proximity, is_center) ==
    proximity = "close" \/ (is_center /\ proximity \in {"close", "medium"})

\* _detection_thread, lines 299-349: one pass of the for loop
ProcessDetection ==
    /\ det_pc = "loop"
    /\ LET d == frame[det_idx]
           obstacle_type == get_obstacle_type(d.name)
           gui_put == ~QueueFull(detection_queue, DetectionQueueMaxsize)
           q2 == AlertObstaclePut(alert_queue, alert_enabled, d.proximity, obstacle_type,
                                  PipelinePriority(d.proximity, d.is_center),
                                  d.is_center, now)
           put == Len(q2) - Len(alert_queue)
       IN /\ detection_queue' =
               IF gui_put
               THEN Append(detection_queue, [name |-> d.name, proximity |-> d.proximity,
                                             is_center |-> d.is_center,
                                             obstacle_type |-> obstacle_type])
               ELSE detection_queue
          /\ alert_queue' = q2
          /\ objects_to_announce' =
               IF should_announce(d.proximity, d.is_center)
               THEN Append(objects_to_announce,
                           [name |-> d.name, type |-> obstacle_type, idx |-> det_idx])
               ELSE objects_to_announce
          /\ frame_yield' =
               [frame_yield EXCEPT
                  ![det_idx].gui = @ + (IF gui_put THEN 1 ELSE 0),
                  ![det_idx].alerts = @ + put,
                  ![det_idx].frequency = IF put > 0 THEN q2[Len(q2)].frequency ELSE @,
                  ![det_idx].duration = IF put > 0 THEN q2[Len(q2)].duration ELSE @]
    /\ det_idx' = det_idx + 1
    /\ det_pc' = IF det_idx = Len(frame) THEN "announce" ELSE "loop"
    /\ UNCHANGED <<now, alert_enabled, last_alert_time, alert_pc, play_until, alert_log,
                   nfired, call, voiceVars, browserVars, agentVars, sessionVars, frame_queue, frames_offered,
                   frames_taken, frame, ann_idx>>

\* announce_close_object, lines 278-289, with no worker step in between
QueueAnnouncement(q, message) ==
    PutNoWait(IF QueueFull(q, VoiceQueueMaxsize) THEN GetNoWait(q) ELSE q,
              VoiceQueueMaxsize, message)

\* _detection_thread, lines 363-365: announce_close_object is called only when
\* the announcer is enabled and its engine attribute is truthy
CallsAnnouncer(enabled, eng) == enabled /\ eng

\* announce_close_object, lines 241-249: the call returns at once when the
\* announcer is disabled, or has no engine object under the local engine name
AnnouncerReady(enabled, eng, name) == enabled /\ ~(~eng /\ name = "pyttsx3")

\* _detection_thread, lines 352-385: the next object of objects_to_announce.
\* The call of announce_close_object is taken as one step of this thread.
PipeAnnounce ==
    /\ det_pc = "announce"
    /\ objects_to_announce # <<>>
    /\ LET o == Head(objects_to_announce)
           message == _generate_message(_translate_to_spanish(o.name), o.type)
           called == CallsAnnouncer(voice_enabled, engine)
           accepted == /\ called
                       /\ AnnouncerReady(voice_enabled, engine, engine_name)
                       /\ ~VoiceDebounced(last_announcement_time, o.name, now)
           q2 == IF accepted THEN QueueAnnouncement(voice_queue, message)
                 ELSE voice_queue
       IN /\ voice_queue' = q2
          /\ last_announcement_time' =
               IF accepted THEN Stamp(last_announcement_time, o.name, now)
               ELSE last_announcement_time
          /\ ann_result' =
               IF ~called THEN ann_result
               ELSE [AnnounceResult(o.name, IF accepted THEN "accepted" ELSE "debounced")
                        EXCEPT !.full = accepted /\ QueueFull(voice_queue, VoiceQueueMaxsize),
                               !.evicted = IF accepted /\ QueueFull(voice_queue,
                                                                    VoiceQueueMaxsize)
                                           THEN "oldest" ELSE "none",
                               !.queued = accepted,
                               !.at_tail = accepted]
          /\ frame_yield' =
               [frame_yield EXCEPT
                  ![o.idx].calls = @ + (IF called THEN 1 ELSE 0),
                  ![o.idx].voices = @ + (IF accepted THEN 1 ELSE 0),
                  ![o.idx].text = IF accepted THEN message ELSE @]
          /\ ann_idx' = o.idx
    /\ objects_to_announce' = Tail(objects_to_announce)
    /\ UNCHANGED <<now, alertVars, call, browserVars, agentVars, sessionVars, voice_enabled, engine_name, engine,
                   is_speaking, ann_pc, ann_message, frame_queue, frames_offered,
                   frames_taken, detection_queue, det_pc, frame, det_idx>>

\* line 387: self.frame_queue.task_done()
FrameDone ==
    /\ det_pc = "announce"
    /\ objects_to_announce = <<>>
    /\ det_pc' = "idle"
    /\ UNCHANGED <<now, alertVars, call, voiceVars, browserVars, agentVars, sessionVars, frame_queue,
                   frames_offered, frames_taken, detection_queue, frame, det_idx,
                   objects_to_announce, ann_idx, frame_yield>>

\* ObstacleGUI.update_detections (gui/obstacle_gui.py): drains the queue
update_detections ==
    /\ detection_queue # <<>>
    /\ detection_queue' = <<>>
    /\ UNCHANGED <<now, alertVars, call, voiceVars, browserVars, agentVars, sessionVars, frame_queue,
                   frames_offered, frames_taken, det_pc, frame, det_idx,
                   objects_to_announce, ann_idx, frame_yield>>

PipeTick ==
    /\ now < MaxPipeTicks * VoiceTickMs
    /\ now' = now + VoiceTickMs
    /\ UNCHANGED <<alertVars, call, voiceVars, pipeVars, browserVars, agentVars, sessionVars>>

CaptureStep == \E scene \in Scenes : _video_capture_thread(scene)

(***************************************************************************)
(* Browser variant: per-cycle processing (app.py) and the AudioManager.     *)
(***************************************************************************)
DETECTION_INTERVAL == 3000
AUDIO_QUEUE_MAX_SIZE == 3

MaxBrowserTicks == 4
BrowserTickMs == DETECTION_INTERVAL \div 3

\* What generate_description can return: the empty text (an empty answer of
\* the language model goes through _clean_description unchanged) or a sentence
Descriptions == {"", "Hay una silla al frente.", "Hay una persona cerca."}

NoCycle ==
    [ran |-> FALSE, t |-> -1, ret |-> FALSE, rendered |-> FALSE, detected |-> FALSE,
     found |-> FALSE, last_pass |-> -1, prev_pass |-> -1, generated |-> FALSE, description |-> "",
     differs |-> FALSE, speak_called |-> FALSE, spoke |-> FALSE,
     last_updated |-> FALSE, saves |-> 0, inferred |-> FALSE, sampled |-> FALSE]

NoSpeak ==
    [op |-> "none", text |-> "", priority |-> FALSE, outcome |-> "none",
     changed |-> FALSE, full |-> FALSE, evicted |-> "none", after_put |-> <<>>]

BrowserInit ==
    /\ detection_active = FALSE
    /\ last_detection_time = 0
    /\ last_description = ""
    /\ audio_queue = <<>>
    /\ is_playing = FALSE
    /\ cycle = NoCycle
    /\ audio_pc = "idle"
    /\ sp_pc = "idle"
    /\ sp_call = NoSpeak

\* Texts for which "not text or not text.strip()" holds (strings are atoms
\* here, so the blank texts the model uses are listed)
BlankTexts == {"", " ", "   "}

\* Mutant of the test of speak: only the empty text is ignored
IsBlank_EmptyOnly(text) == text = ""

\* AudioManager.speak, line 239
IsBlank(text) == text \in BlankTexts

\* AudioManager.speak: the queue after the call
speak(q, text, priority) ==
    IF IsBlank(text) THEN q
    ELSE LET q1 == IF priority THEN <<>> ELSE q
             q2 == IF QueueFull(q1, AUDIO_QUEUE_MAX_SIZE) THEN GetNoWait(q1) ELSE q1
         IN Append(q2, text)

\* Mutant of the test of app.py line 349: every description is new
DescriptionDiffers_Always(description, last) == TRUE

\* app.py line 349
DescriptionDiffers(description, last) == description # last

\* app.py lines 309-312
DetectionDue(t, last) == t - last >= DETECTION_INTERVAL

\* Mutant of the timestamp update: only a spoken description moves it
UpdatesDetectionTime_Spoken(speaks, due, found) == speaks

\* app.py lines 357 and 376: the two places that set last_detection_time
UpdatesDetectionTime(speaks, due, found) == speaks \/ (due /\ ~found)

\* LanguageAgent.generate_description, line 182: the text for no detections
NoObjectsSentence == "No se detectaron objetos en el entorno cercano."

(***************************************************************************)
(* VisionAgent (agents/vision_agent.py of the browser assistant, the basic *)
(* variant, and "Nueva carpeta"/agents/vision_agent.py of the standalone   *)
(* assistant, the proximity-aware variant).  A constructed agent has a     *)
(* loaded model: _load_model raises out of __init__ otherwise.  A raw box  *)
(* is what the model reports for one object, with the proximity and centre *)
(* zone the helpers derive from it; confidence is in hundredths.           *)
(***************************************************************************)
YOLO_PROCESS_EVERY_N_FRAMES == 5
YOLO_PROCESS_EVERY_N_FRAMES_Standalone == 2
max_detections == 10

Variants == {"basic", "proximity"}

ProcessEveryN(variant) ==
    IF variant = "basic" THEN YOLO_PROCESS_EVERY_N_FRAMES
    ELSE YOLO_PROCESS_EVERY_N_FRAMES_Standalone

\* VisionAgent.__init__ and its state after reset_frame_count
NewVision(variant) ==
    [variant |-> variant, process_every_n_frames |-> ProcessEveryN(variant),
     frame_count |-> 0, calls |-> 0, force |-> FALSE, ran |-> FALSE,
     inference |-> "none", raw |-> <<>>, out |-> <<>>]

\* _is_relevant_object: the two variants differ in the lists only
HighPriority(variant) ==
    IF variant = "basic"
    THEN {"person", "chair", "table", "door", "stairs", "bottle", "cup", "book", "phone",
          "laptop", "keyboard", "mouse", "backpack", "handbag", "umbrella", "car", "bus",
          "truck", "bicycle", "motorcycle", "dog", "cat", "bird"}
    ELSE {"person", "chair", "table", "door", "stairs", "car", "bus", "truck", "bicycle",
          "motorcycle", "dog", "cat", "backpack", "handbag", "umbrella", "couch", "bed",
          "dining table", "toilet", "tv", "bottle", "phone", "cell phone", "mobile phone"}

MediumPriority(variant) ==
    IF variant = "basic"
    THEN {"tv", "remote", "vase", "bowl", "banana", "apple", "sandwich", "pizza", "clock",
          "scissors", "toothbrush"}
    ELSE {"cup", "book", "laptop", "keyboard", "mouse", "vase", "bowl", "remote", "clock",
          "scissors", "toothbrush"}

_is_relevant_object(variant, class_name, confidence) ==
    IF class_name \in HighPriority(variant) THEN confidence >= 40
    ELSE IF class_name \in MediumPriority(variant) THEN confidence >= 60
    ELSE confidence >= 70

\* a Python tuple of sort keys, False/True as 0/1
Bit(b) == IF b THEN 1 ELSE 0

\* Mutant of the sort key: the confidence alone in both variants
SortKey_ConfidenceOnly(variant, d) == <<0 - d.confidence>>

\* the key of detections.sort: confidence with reverse=True in the basic
\* variant (a stable descending sort, the same order as ascending on the
\* negated confidence), the four-part tuple in the proximity-aware variant
SortKey(variant, d) ==
    IF variant = "basic" THEN <<0 - d.confidence>>
    ELSE <<Bit(~d.is_center), Bit(d.proximity # "close"), Bit(d.proximity # "medium"),
           0 - d.confidence>>

\* Python's comparison of two tuples of the same length
RECURSIVE TupleLess(_, _)
TupleLess(a, b) ==
    IF a = <<>> THEN FALSE
    ELSE IF Head(a) # Head(b) THEN Head(a) < Head(b)
    ELSE TupleLess(Tail(a), Tail(b))

\* list.sort is stable: an element goes after those that are not greater
RECURSIVE InsertByKey(_, _, _)
InsertByKey(variant, s, d) ==
    IF s = <<>> THEN <<d>>
    ELSE IF TupleLess(SortKey(variant, d), SortKey(variant, Head(s)))
         THEN <<d>> \o s
         ELSE <<Head(s)>> \o InsertByKey(variant, Tail(s), d)

RECURSIVE SortDetections(_, _)
SortDetections(variant, s) ==
    IF s = <<>> THEN <<>>
    ELSE InsertByKey(variant, SortDetections(variant, SubSeq(s, 1, Len(s) - 1)), s[Len(s)])

\* detections[:max_detections]
Take(s, n) == SubSeq(s, 1, IF Len(s) < n THEN Len(s) ELSE n)

Relevant(variant, raw) ==
    SelectSeq(raw, LAMBDA d : _is_relevant_object(variant, d.name, d.confidence))

\* Mutant of the skip test: a forced call is skipped like any other
SkipsFrame_Forced(force_process, frame_count, n) == frame_count % n # 0

\* detect_objects: "if not force_process and self.frame_count % N != 0"
SkipsFrame(force_process, frame_count, n) == ~force_process /\ frame_count % n # 0

\* VisionAgent.detect_objects on the agent record v; inference is "ok" or
\* "raises" (the except branch returns the empty list)
detect_objects(v, raw, force_process, inference) ==
    LET count == v.frame_count + 1
        skip == SkipsFrame(force_process, count, v.process_every_n_frames)
    IN  [v EXCEPT !.frame_count = count, !.calls = v.calls + 1,
                  !.force = force_process, !.ran = ~skip,
                  !.inference = IF skip THEN "none" ELSE inference,
                  !.raw = raw,
                  !.out = IF skip \/ inference # "ok" THEN <<>>
                          ELSE Take(SortDetections(v.variant, Relevant(v.variant, raw)),
                                    max_detections)]

\* VisionAgent.reset_frame_count
reset_frame_count(v) == NewVision(v.variant)

MaxDetectCalls == 6    \* detect_objects calls between two resets
MaxBoxes == 14         \* boxes the model reports for one frame

BoxNames == <<"person", "kite">>
BoxConfidences == <<55, 75>>
BoxProximities == <<"close", "medium", "far">>
NumBoxes == Len(BoxNames) * Len(BoxConfidences) * 2 * Len(BoxProximities)

BoxAt(i) ==
    [name |-> BoxNames[(i % 2) + 1], confidence |-> BoxConfidences[((i \div 2) % 2) + 1],
     is_center |-> (i \div 4) % 2 = 0, proximity |-> BoxProximities[((i \div 8) % 3) + 1]]

\* the frames: runs of distinct boxes in several orders, empty, short and long
Strides == {1, 5, 7}
Starts == {0, 6, 12, 18}
FrameLengths == {0, 2, MaxBoxes - 1, MaxBoxes}
RawFrames ==
    {[i \in 1..len |-> BoxAt((k + i * stride) % NumBoxes)] :
        len \in FrameLengths, k \in Starts, stride \in Strides}

DetectStep ==
    /\ vision.calls < MaxDetectCalls
    /\ \E raw \in RawFrames, force_process \in BOOLEAN :
          vision' = detect_objects(vision, raw, force_process, "ok")
    /\ UNCHANGED <<now, alertVars, call, voiceVars, pipeVars, browserVars, agentVars,
                   pg_users, sb_users, usr, camera, audio_det, shared, alert_calls, asst>>

DetectRaises ==
    /\ vision.calls < MaxDetectCalls
    /\ \E force_process \in BOOLEAN :
          vision' = detect_objects(vision, <<BoxAt(0)>>, force_process, "raises")
    /\ UNCHANGED <<now, alertVars, call, voiceVars, pipeVars, browserVars, agentVars,
                   pg_users, sb_users, usr, camera, audio_det, shared, alert_calls, asst>>

ResetStep ==
    /\ vision.calls > 0
    /\ vision' = reset_frame_count(vision)
    /\ UNCHANGED <<now, alertVars, call, voiceVars, pipeVars, browserVars, agentVars,
                   pg_users, sb_users, usr, camera, audio_det, shared, alert_calls, asst>>

NextVision ==
    \/ DetectStep
    \/ DetectRaises
    \/ ResetStep

\* st.session_state.cap is "none" or an "open" camera handle
(***************************************************************************)
(* Ambient noise detector of the browser variant (modules/audio_detector.py)*)
(***************************************************************************)
NOISE_THRESHOLD == 20      \* config.py, in hundredths of full scale
Int16Range == 65536        \* values of the numpy.int16 sample type
Int16Min == -32768
HalfScale == 32768         \* 2^15; max_value = 32768.0, and 2^30 = HalfScale^2

\* AudioDetector(): no stream yet; present is false for a session whose
\* audio_detector is None
NewAudioDetector == [present |-> TRUE, is_listening |-> FALSE, stream |-> "none"]

\* start_listening: opens the input stream; an error is logged and False returned
start_listening(d, ok) ==
    IF ok THEN [d EXCEPT !.is_listening = TRUE, !.stream = "open"] ELSE d

\* stop_listening: the stream and the PyAudio instance are closed, not cleared
stop_listening(d) ==
    IF ~d.present THEN d
    ELSE [d EXCEPT !.is_listening = FALSE,
                   !.stream = IF d.stream = "none" THEN "none" ELSE "closed"]

\* detect_noise, line 65: a chunk is read only while listening
ReadsChunk(d) == d.present /\ d.is_listening /\ d.stream # "none"

\* numpy.int16 arithmetic: the result wraps around into -32768..32767
WrapInt16(x) == ((x - Int16Min) % Int16Range) + Int16Min

\* audio_data**2 on an int16 array is an int16 array; the mathematical square
\* is what the int16 type cannot hold
Square(x, int16) == IF int16 THEN WrapInt16(x * x) ELSE x * x

\* numpy.mean accumulates the squares it is given in float64
RECURSIVE SumSquares(_, _)
SumSquares(chunk, int16) ==
    IF chunk = <<>> THEN 0
    ELSE Square(Head(chunk), int16) + SumSquares(Tail(chunk), int16)

\* floor(x * 2^30 / 10000), without leaving 32-bit integers
ScaledFloor(x) ==
    LET X == x * HalfScale
        q == X \div 10000
        r == X % 10000
    IN  q * HalfScale + ((r * HalfScale) \div 10000)

\* sqrt(sum / n) / 32768 > th / 100 for a sum of n squares that is not negative
ExceedsLevel(sum, n, th) == sum > ScaledFloor(n * th * th)

NoNoise == [has_noise |-> FALSE, level |-> "", sum |-> 0, n |-> 0]

\* lines 83-101 on the mean of n squares sum / n; numpy.sqrt of a negative
\* mean is nan, and every comparison with nan is false
NoiseEvent(sum, n) ==
    IF sum < 0 \/ ~ExceedsLevel(sum, n, NOISE_THRESHOLD) THEN NoNoise
    ELSE [has_noise |-> TRUE,
          level |-> IF ExceedsLevel(sum, n, 70) THEN "muy alto"
                    ELSE IF ExceedsLevel(sum, n, 50) THEN "alto"
                    ELSE IF ExceedsLevel(sum, n, 30) THEN "moderado"
                    ELSE "bajo",
          sum |-> sum, n |-> n]

\* detect_noise on a listening detector that read chunk; the intensity
\* sqrt(sum / n) / 32768 is kept as the pair (sum, n)
detect_noise(chunk) == NoiseEvent(SumSquares(chunk, TRUE), Len(chunk))

\* the event the claim describes for the chunk
TrueNoiseEvent(chunk) == NoiseEvent(SumSquares(chunk, FALSE), Len(chunk))

MaxChunk == 2     \* samples in a chunk of the model (AUDIO_CHUNK_SIZE is 1024)
Samples == {0, 181, 182, 256, -256, 6553, 6554, 9831, 16384, 16385, 22938, -26000}
Chunks == UNION {[1..n -> Samples] : n \in 1..MaxChunk}
NoiseCalls == {[fn |-> "detect_noise", chunk |-> c, done |-> FALSE, result |-> NoNoise] :
                 c \in Chunks}

CallNoise ==
    /\ fn_call.fn = "detect_noise" /\ ~fn_call.done
    /\ fn_call' = [fn_call EXCEPT !.done = TRUE, !.result = detect_noise(fn_call.chunk)]
    /\ UNCHANGED <<now, alertVars, call, voiceVars, pipeVars, browserVars, sessionVars,
                   pg_table, sb_table, sb_unique, db_pc, db_req, db_hist, use_supabase,
                   client, gen>>

NoCamera == "none"

\* what the camera does in start_detection: it opens with DirectShow, or with the
\* default backend only, and delivers a frame at the first or at the second read;
\* or it opens with neither backend; or it opens and both reads fail
CameraOutcomes == {"dshow", "default", "second_read", "unopened", "noframes"}

\* Mutant of the fallback: only a camera that DirectShow opens is accepted
CameraWorks_DirectShowOnly(outcome) == outcome \in {"dshow", "second_read"}

\* start_detection, lines 190-221: no exception is raised
CameraWorks(outcome) == outcome \in {"dshow", "default", "second_read"}

\* the text of the exception, lines 198 and 221
CameraError(outcome) ==
    IF outcome = "unopened" THEN "No se pudo abrir la cámara"
    ELSE "La cámara no puede capturar frames. Verifica que no esté siendo usada por otra aplicación."

\* start_detection; what it leaves alone apart from the record of the call
start_detection(outcome) ==
    /\ ~detection_active
    /\ IF CameraWorks(outcome)
       THEN /\ detection_active' = TRUE
            /\ camera' = "open"
            /\ vision' = reset_frame_count(vision)
            /\ last_detection_time' = 0
            /\ audio_queue' = speak(audio_queue,
                                    "Detección iniciada. Analizando el entorno.", TRUE)
       ELSE /\ camera' = "none"
            /\ detection_active' = FALSE
            /\ audio_queue' = speak(audio_queue,
                                    "Error al iniciar la cámara: " \o CameraError(outcome),
                                    TRUE)
            /\ UNCHANGED <<last_detection_time, vision>>
    /\ cycle' = [NoCycle EXCEPT !.t = cycle.t]
    /\ UNCHANGED <<now, alertVars, voiceVars, pipeVars, agentVars, pg_users, sb_users,
                   usr, asst, audio_det, shared, alert_calls, last_description, is_playing, audio_pc, sp_pc, sp_call>>

\* stop_detection: audio_manager.stop() empties the queue before the message
stop_detection ==
    /\ detection_active
    /\ detection_active' = FALSE
    /\ camera' = "none"
    /\ audio_det' = stop_listening(audio_det)
    /\ audio_queue' = speak(<<>>, "Detección detenida.", TRUE)
    /\ UNCHANGED <<now, alertVars, call, voiceVars, pipeVars, agentVars, pg_users, sb_users,
                   usr, vision, asst, shared, alert_calls, last_detection_time, last_description, is_playing,
                   cycle, audio_pc, sp_pc, sp_call>>

\* process_video_and_detection, one refresh cycle of main().  ret: the camera
\* delivered a frame; found: detections or noise_info is non-empty; raised:
\* generate_description raised; description: what it returned otherwise.
\* app.py line 315: detect_objects(frame), force_process left at its default;
\* whether this call of the agent v runs inference
Infers(v) == ~SkipsFrame(FALSE, v.frame_count + 1, v.process_every_n_frames)

\* Detections come from inference only (line 315) and a noise event from a
\* chunk that was read only (lines 322-324); inferred and sampled record both.
process_video_and_detection(ret, found, raised, description) ==
    /\ detection_active
    /\ cycle.t < now
    /\ found => (Infers(vision) \/ ReadsChunk(audio_det))
    /\ LET due == ret /\ DetectionDue(now, last_detection_time)
           generated == due /\ found /\ ~raised
           speaks == generated /\ DescriptionDiffers(description, last_description)
           q2 == IF speaks THEN speak(audio_queue, description, FALSE) ELSE audio_queue
       IN /\ audio_queue' = q2
          /\ last_description' = IF speaks THEN description ELSE last_description
          /\ last_detection_time' =
               IF UpdatesDetectionTime(speaks, due, found) THEN now
               ELSE last_detection_time
          /\ cycle' =
               [ran |-> TRUE, t |-> now, ret |-> ret, rendered |-> ret, detected |-> due,
                found |-> due /\ found,
                last_pass |-> IF due THEN now ELSE cycle.last_pass,
                prev_pass |-> IF due THEN cycle.last_pass ELSE cycle.prev_pass,
                generated |-> generated,
                description |-> IF generated THEN description ELSE "",
                differs |-> generated /\ description # last_description,
                speak_called |-> speaks,
                spoke |-> q2 # audio_queue,
                last_updated |-> speaks /\ last_description' = description,
                saves |-> IF speaks THEN 1 ELSE 0,
                inferred |-> due /\ Infers(vision),
                sampled |-> due /\ ReadsChunk(audio_det)]
          /\ vision' = IF due THEN detect_objects(vision, <<>>, FALSE, "ok") ELSE vision
    /\ UNCHANGED <<now, alertVars, call, voiceVars, pipeVars, agentVars, pg_users, sb_users,
                   usr, camera, audio_det, shared, alert_calls, asst, detection_active, is_playing, audio_pc, sp_pc, sp_call>>

browserState == <<detection_active, last_detection_time, last_description, cycle>>

\* AudioManager._process_audio_queue, line 109: text = self.audio_queue.get(timeout=1)
AudioGet ==
    /\ audio_pc = "idle"
    /\ audio_queue # <<>>
    /\ audio_queue' = Tail(audio_queue)
    /\ audio_pc' = "got"
    /\ UNCHANGED <<now, alertVars, call, voiceVars, pipeVars, agentVars, sessionVars, browserState, is_playing,
                   sp_pc, sp_call>>

\* line 111: self.is_playing = True, then _speak_sync(text) runs
AudioMark ==
    /\ audio_pc = "got"
    /\ is_playing' = TRUE
    /\ audio_pc' = "playing"
    /\ UNCHANGED <<now, alertVars, call, voiceVars, pipeVars, agentVars, sessionVars, browserState, audio_queue,
                   sp_pc, sp_call>>

\* _speak_sync returns (or raises, line 119); is_playing = False
AudioDone ==
    /\ audio_pc = "playing"
    /\ is_playing' = FALSE
    /\ audio_pc' = "idle"
    /\ UNCHANGED <<now, alertVars, call, voiceVars, pipeVars, agentVars, sessionVars, browserState, audio_queue,
                   sp_pc, sp_call>>

\* AudioManager.is_busy
is_busy == is_playing \/ audio_queue # <<>>

\* AudioManager.speak step by step, so that the worker can run in between.
SpeakTexts == {"", " ", "uno", "dos"}

\* lines 239-240: blank text returns at once
SpeakCall(text, priority) ==
    /\ sp_pc = "idle"
    /\ sp_call' = [op |-> "speak", text |-> text, priority |-> priority,
                   outcome |-> IF IsBlank(text) THEN "ignored" ELSE "running",
                   changed |-> FALSE, full |-> FALSE, evicted |-> "none",
                   after_put |-> <<>>]
    /\ sp_pc' = IF IsBlank(text) THEN "idle"
                ELSE IF priority THEN "drain" ELSE "check"
    /\ UNCHANGED <<now, alertVars, call, voiceVars, pipeVars, agentVars, sessionVars, browserState, audio_queue,
                   is_playing, audio_pc>>

\* lines 243-249: while not self.audio_queue.empty(): get_nowait()
SpeakDrain ==
    /\ sp_pc = "drain"
    /\ IF audio_queue = <<>>
       THEN /\ sp_pc' = "check"
            /\ UNCHANGED <<audio_queue, sp_call>>
       ELSE /\ audio_queue' = GetNoWait(audio_queue)
            /\ sp_call' = [sp_call EXCEPT !.changed = TRUE]
            /\ UNCHANGED sp_pc
    /\ UNCHANGED <<now, alertVars, call, voiceVars, pipeVars, agentVars, sessionVars, browserState, is_playing,
                   audio_pc>>

\* line 251: if self.audio_queue.full()
SpeakCheck ==
    /\ sp_pc = "check"
    /\ sp_call' = [sp_call EXCEPT !.full = QueueFull(audio_queue, AUDIO_QUEUE_MAX_SIZE)]
    /\ sp_pc' = IF QueueFull(audio_queue, AUDIO_QUEUE_MAX_SIZE) THEN "evict" ELSE "put"
    /\ UNCHANGED <<now, alertVars, call, voiceVars, pipeVars, agentVars, sessionVars, browserState, audio_queue,
                   is_playing, audio_pc>>

\* lines 253-256: get_nowait(), queue.Empty is passed
SpeakEvict ==
    /\ sp_pc = "evict"
    /\ IF audio_queue = <<>>
       THEN /\ sp_call' = [sp_call EXCEPT !.evicted = "empty"]
            /\ UNCHANGED audio_queue
       ELSE /\ audio_queue' = GetNoWait(audio_queue)
            /\ sp_call' = [sp_call EXCEPT
                              !.changed = TRUE,
                              !.evicted = IF audio_queue' = Tail(audio_queue)
                                          THEN "oldest" ELSE "other"]
    /\ sp_pc' = "put"
    /\ UNCHANGED <<now, alertVars, call, voiceVars, pipeVars, agentVars, sessionVars, browserState, is_playing,
                   audio_pc>>

\* line 258: self.audio_queue.put(text), which waits while the queue is full
SpeakPut ==
    /\ sp_pc = "put"
    /\ ~QueueFull(audio_queue, AUDIO_QUEUE_MAX_SIZE)
    /\ audio_queue' = Append(audio_queue, sp_call.text)
    /\ sp_call' = [sp_call EXCEPT !.outcome = "queued", !.changed = TRUE,
                                  !.after_put = audio_queue']
    /\ sp_pc' = "idle"
    /\ UNCHANGED <<now, alertVars, call, voiceVars, pipeVars, agentVars, sessionVars, browserState, is_playing,
                   audio_pc>>

SpeakStep == \E text \in SpeakTexts, priority \in BOOLEAN : SpeakCall(text, priority)

NextAudio ==
    \/ SpeakStep
    \/ SpeakDrain
    \/ SpeakCheck
    \/ SpeakEvict
    \/ SpeakPut
    \/ AudioGet
    \/ AudioMark
    \/ AudioDone

BrowserTick ==
    /\ now < DETECTION_INTERVAL + MaxBrowserTicks * BrowserTickMs
    /\ now' = now + BrowserTickMs
    /\ UNCHANGED <<alertVars, call, voiceVars, pipeVars, browserVars, agentVars, sessionVars>>

StartStep == \E outcome \in CameraOutcomes : start_detection(outcome) /\ UNCHANGED call

\* a start_detection call with its record: the outcome, the agent's frame counter
\* and the camera handle when the call was made, the outcome of the call before
StartCall ==
    \E outcome \in CameraOutcomes :
        /\ start_detection(outcome)
        /\ call' = [op |-> "start_detection", n |-> 1 - call.n, outcome |-> outcome,
                    count_before |-> vision.frame_count, camera_before |-> camera,
                    before |-> call.outcome]

CycleStep ==
    \E ret \in BOOLEAN, found \in BOOLEAN, raised \in BOOLEAN,
       description \in Descriptions :
        process_video_and_detection(ret, found, raised, description)

NextBrowser ==
    \/ StartStep
    \/ stop_detection
    \/ CycleStep
    \/ AudioGet
    \/ AudioMark
    \/ AudioDone
    \/ BrowserTick

(***************************************************************************)
(* LanguageAgent (Streamlit-Ollama/agents/language_agent.py): cache key.   *)
(* A detection is [name, x_center, y_center]; centres are whole pixels.    *)
(* The MD5 digest of the canonical JSON text is modelled by the canonical  *)
(* list itself (equal lists give equal digests, collisions are ignored).   *)
(***************************************************************************)
\* Python's string order on the object names used here
NameOrder == <<"chair", "person", "ruido">>

NameRank(name) == CHOOSE i \in 1..Len(NameOrder) : NameOrder[i] = name

\* round(x / 100): Python rounds a half to the even neighbour
RoundHundredth(x) ==
    LET q == x \div 100
        r == x % 100
    IN  IF r < 50 THEN q
        ELSE IF r > 50 THEN q + 1
        ELSE IF q % 2 = 0 THEN q ELSE q + 1

Normalized(det) ==
    [name |-> det.name,
     x_center |-> RoundHundredth(det.x_center),
     y_center |-> RoundHundredth(det.y_center)]

\* the sort key (name, x_center, y_center), compared as Python compares tuples
KeyBefore(a, b) ==
    \/ NameRank(a.name) < NameRank(b.name)
    \/ /\ a.name = b.name
       /\ \/ a.x_center < b.x_center
          \/ a.x_center = b.x_center /\ a.y_center < b.y_center

RECURSIVE InsertSorted(_, _)
InsertSorted(e, s) ==
    IF s = <<>> THEN <<e>>
    ELSE IF KeyBefore(e, Head(s)) THEN <<e>> \o s
    ELSE <<Head(s)>> \o InsertSorted(e, Tail(s))

SortByKey_Unsorted(s) == s

\* list.sort(key=...): stable, ascending
RECURSIVE SortByKey(_)
SortByKey(s) ==
    IF s = <<>> THEN <<>>
    ELSE LET n == Len(s)
         IN  InsertSorted(s[n], SortByKey(SubSeq(s, 1, n - 1)))

_create_hash_from_detections(detections) ==
    SortByKey([i \in 1..Len(detections) |-> Normalized(detections[i])])

MaxDetections == 3

HashNames == {"chair", "person"}
HashCentres == {<<40, 100>>, <<150, 100>>, <<250, 140>>}
HashDetections ==
    {[name |-> n, x_center |-> c[1], y_center |-> c[2]] : n \in HashNames, c \in HashCentres}

DetectionLists == UNION {[1..k -> HashDetections] : k \in 0..MaxDetections}

NoFn == [fn |-> "none"]

Orderings(k) == {p \in [1..k -> 1..k] : \A i, j \in 1..k : p[i] = p[j] => i = j}

\* another detection of the same object in the same hundred-pixel cell, if there is one
SameCell(det) ==
    LET others == {d \in HashDetections : d # det /\ Normalized(d) = Normalized(det)}
    IN  IF others = {} THEN det ELSE CHOOSE d \in others : TRUE

\* the list a reordered by p, every detection moved within its cell when moved is set
Reordered(a, p, moved) ==
    [i \in 1..Len(a) |-> IF moved THEN SameCell(a[p[i]]) ELSE a[p[i]]]

HashCalls ==
    UNION {[fn : {"hash"}, a : {a}, p : Orderings(Len(a)), moved : BOOLEAN,
            done : {FALSE}, ka : {<<>>}, kb : {<<>>}] : a \in DetectionLists}

CallHash ==
    /\ fn_call.fn = "hash"
    /\ ~fn_call.done
    /\ fn_call' = [fn_call EXCEPT !.done = TRUE,
                                  !.ka = _create_hash_from_detections(fn_call.a),
                                  !.kb = _create_hash_from_detections(
                                             Reordered(fn_call.a, fn_call.p,
                                                       fn_call.moved))]
    /\ UNCHANGED <<now, alertVars, call, voiceVars, pipeVars, browserVars, sessionVars, pg_table,
                   sb_table, sb_unique, db_pc, db_req, db_hist, use_supabase, client, gen>>

(***************************************************************************)
(* DatabaseManager (modules/database_manager.py): the description cache,   *)
(* table cache_descripciones.  A row is [hash_objetos, descripcion,        *)
(* uso_count, last_used]; a table is the sequence of its rows in insertion *)
(* order.  CURRENT_TIMESTAMP is the number of calls started so far.        *)
(***************************************************************************)
\* Python's None as a returned description
None == "None"

\* confidence is in percent
ChairAhead == [name |-> "chair", x_center |-> 320, y_center |-> 240, confidence |-> 90]
PersonLeft == [name |-> "person", x_center |-> 100, y_center |-> 400, confidence |-> 65]

\* the detection lists handed to generate_description
AgentDetections == {<<>>, <<ChairAhead>>, <<PersonLeft, ChairAhead>>}

CacheKeys == {_create_hash_from_detections(d) : d \in AgentDetections}

\* keys under which descriptions are stored
DbHashes == {k \in CacheKeys : k # <<>>}

CacheTexts == {"Hay una silla al frente.", "Hay una persona cerca."}

MaxCallers == 2
Callers == 1..MaxCallers
MaxCacheCalls == 3

\* SELECT ... WHERE hash_objetos = h / .select(...).eq('hash_objetos', h)
Select(table, h) == SelectSeq(table, LAMBDA r : r.hash_objetos = h)

\* uso_count DEFAULT 1, last_used DEFAULT CURRENT_TIMESTAMP
NewRow(h, text, t) ==
    [hash_objetos |-> h, descripcion |-> text, uso_count |-> 1, last_used |-> t]

PgUpsert_Insert(table, h, text, t) == Append(table, NewRow(h, text, t))

\* INSERT ... ON CONFLICT (hash_objetos) DO UPDATE SET descripcion = EXCLUDED.descripcion,
\* uso_count = cache_descripciones.uso_count + 1, last_used = CURRENT_TIMESTAMP
PgUpsert(table, h, text, t) ==
    IF Select(table, h) = <<>> THEN Append(table, NewRow(h, text, t))
    ELSE [i \in 1..Len(table) |->
            IF table[i].hash_objetos = h
            THEN [table[i] EXCEPT !.descripcion = text, !.uso_count = @ + 1,
                                  !.last_used = t]
            ELSE table[i]]

\* UPDATE cache_descripciones SET uso_count = uso_count + 1,
\* last_used = CURRENT_TIMESTAMP WHERE hash_objetos = h
PgTouch(table, h, t) ==
    [i \in 1..Len(table) |->
        IF table[i].hash_objetos = h
        THEN [table[i] EXCEPT !.uso_count = @ + 1, !.last_used = t]
        ELSE table[i]]

NewCount_Current(seen_count, stored_count) == stored_count + 1

\* new_count = <the row read>.get('uso_count', 1) + 1
NewCount(seen_count, stored_count) == seen_count + 1

\* .update({'uso_count': new_count}).eq('hash_objetos', h)
SbUpdateCount(table, h, seen_count) ==
    [i \in 1..Len(table) |->
        IF table[i].hash_objetos = h
        THEN [table[i] EXCEPT !.uso_count = NewCount(seen_count, @)]
        ELSE table[i]]

SbUpdate_CountOnly(table, h, text, seen_count) == SbUpdateCount(table, h, seen_count)

\* .update({'descripcion': descripcion, 'uso_count': new_count}).eq('hash_objetos', h)
SbUpdate(table, h, text, seen_count) ==
    [i \in 1..Len(table) |->
        IF table[i].hash_objetos = h
        THEN [table[i] EXCEPT !.descripcion = text,
                              !.uso_count = NewCount(seen_count, @)]
        ELSE table[i]]

\* .insert(cache_data): a table with UNIQUE(hash_objetos) rejects a second row for h
InsertRejected(table, unique, h) == unique /\ Select(table, h) # <<>>

SbInsert(table, unique, h, text, t) ==
    IF InsertRejected(table, unique, h) THEN table ELSE Append(table, NewRow(h, text, t))

\* ---- the four backend functions, run without interleaving: [table, value]
_get_cached_description_postgres(table, h, t) ==
    LET result == Select(table, h)
    IN  IF result # <<>>
        THEN [table |-> PgTouch(table, h, t), value |-> result[1].descripcion]
        ELSE [table |-> table, value |-> None]

_get_cached_description_supabase(table, h) ==
    LET data == Select(table, h)
    IN  IF data # <<>>
        THEN [table |-> SbUpdateCount(table, h, data[1].uso_count),
              value |-> data[1].descripcion]
        ELSE [table |-> table, value |-> None]

_cache_description_postgres(table, h, text, t) ==
    [table |-> PgUpsert(table, h, text, t), value |-> TRUE]

_cache_description_supabase(table, unique, h, text, t) ==
    LET existing == Select(table, h)
    IN  IF existing # <<>>
        THEN [table |-> SbUpdate(table, h, text, existing[1].uso_count), value |-> TRUE]
        ELSE [table |-> SbInsert(table, unique, h, text, t),
              value |-> ~InsertRejected(table, unique, h)]

NoReq == [hash |-> <<>>, text |-> "", seen |-> <<>>]

ZeroHist ==
    [started |-> 0,
     caches |-> [h \in CacheKeys |-> 0],   \* cache_description calls that returned True
     hits |-> [h \in CacheKeys |-> 0],     \* get_cached_description calls that found a row
     latest |-> [h \in CacheKeys |-> None],\* text of the last cache_description
     stale |-> [h \in CacheKeys |-> 0],    \* writes made after the rows read had changed
     dups |-> [h \in CacheKeys |-> 0],     \* inserts made while a row for the hash existed
     peak |-> 0]                           \* most calls in progress at one time

DbInit ==
    /\ pg_table = <<>>
    /\ sb_table = <<>>
    /\ sb_unique = TRUE
    /\ db_pc = [c \in Callers |-> "idle"]
    /\ db_req = [c \in Callers |-> NoReq]
    /\ db_hist = ZeroHist

\* CURRENT_TIMESTAMP
Clock == db_hist.started

Bump(f, h) == [f EXCEPT ![h] = @ + 1]

InProgress(pc) == Cardinality({c \in Callers : pc[c] # "idle"})

Started(pc) ==
    [db_hist EXCEPT !.started = @ + 1,
                    !.peak = IF InProgress(pc) > @ THEN InProgress(pc) ELSE @]

otherThanDb == <<now, alertVars, call, voiceVars, pipeVars, browserVars, sessionVars, use_supabase,
                 client, gen, fn_call>>

\* ---- sequential use: the same call made on a direct and on a managed DatabaseManager
SeqCache(h, text) ==
    /\ db_hist.started < MaxCacheCalls
    /\ pg_table' = _cache_description_postgres(pg_table, h, text, Clock).table
    /\ sb_table' = _cache_description_supabase(sb_table, sb_unique, h, text, Clock).table
    /\ db_hist' = [db_hist EXCEPT !.started = @ + 1, !.caches = Bump(@, h),
                                  !.latest = [@ EXCEPT ![h] = text]]
    /\ UNCHANGED <<otherThanDb, sb_unique, db_pc, db_req>>

SeqGet(h) ==
    /\ db_hist.started < MaxCacheCalls
    /\ pg_table' = _get_cached_description_postgres(pg_table, h, Clock).table
    /\ sb_table' = _get_cached_description_supabase(sb_table, h).table
    /\ db_hist' = [db_hist EXCEPT !.started = @ + 1,
                                  !.hits = IF Select(pg_table, h) # <<>>
                                           THEN Bump(@, h) ELSE @]
    /\ UNCHANGED <<otherThanDb, sb_unique, db_pc, db_req>>

NextCacheSeq ==
    \/ \E h \in DbHashes, text \in CacheTexts : SeqCache(h, text)
    \/ \E h \in DbHashes : SeqGet(h)

\* ---- direct backend, concurrent callers
\* _cache_description_postgres up to taking a connection
PgCacheBegin(c, h, text) ==
    /\ db_pc[c] = "idle"
    /\ db_hist.started < MaxCacheCalls
    /\ db_pc' = [db_pc EXCEPT ![c] = "pg_upsert"]
    /\ db_req' = [db_req EXCEPT ![c] = [hash |-> h, text |-> text, seen |-> <<>>]]
    /\ db_hist' = Started(db_pc')
    /\ UNCHANGED <<otherThanDb, pg_table, sb_table, sb_unique>>

\* the INSERT ... ON CONFLICT statement and the commit, or an exception and the rollback
PgCacheExec(c, ok) ==
    /\ db_pc[c] = "pg_upsert"
    /\ pg_table' = IF ok THEN PgUpsert(pg_table, db_req[c].hash, db_req[c].text, Clock)
                   ELSE pg_table
    /\ db_hist' = IF ok
                  THEN [db_hist EXCEPT !.caches = Bump(@, db_req[c].hash),
                                       !.latest = [@ EXCEPT ![db_req[c].hash] =
                                                      db_req[c].text]]
                  ELSE db_hist
    /\ db_pc' = [db_pc EXCEPT ![c] = "idle"]
    /\ db_req' = [db_req EXCEPT ![c] = NoReq]
    /\ UNCHANGED <<otherThanDb, sb_table, sb_unique>>

\* _get_cached_description_postgres: the SELECT
PgGetSelect(c, h) ==
    /\ db_pc[c] = "idle"
    /\ db_hist.started < MaxCacheCalls
    /\ LET result == Select(pg_table, h)
       IN  /\ db_pc' = [db_pc EXCEPT ![c] = IF result # <<>> THEN "pg_update" ELSE "idle"]
           /\ db_req' = [db_req EXCEPT ![c] = IF result # <<>>
                                              THEN [hash |-> h, text |-> "", seen |-> result]
                                              ELSE NoReq]
    /\ db_hist' = Started(db_pc')
    /\ UNCHANGED <<otherThanDb, pg_table, sb_table, sb_unique>>

\* the UPDATE and the commit, or an exception and the rollback
PgGetUpdate(c, ok) ==
    /\ db_pc[c] = "pg_update"
    /\ pg_table' = IF ok THEN PgTouch(pg_table, db_req[c].hash, Clock) ELSE pg_table
    /\ db_hist' = IF ok THEN [db_hist EXCEPT !.hits = Bump(@, db_req[c].hash)] ELSE db_hist
    /\ db_pc' = [db_pc EXCEPT ![c] = "idle"]
    /\ db_req' = [db_req EXCEPT ![c] = NoReq]
    /\ UNCHANGED <<otherThanDb, sb_table, sb_unique>>

NextCachePg ==
    \/ \E c \in Callers, h \in DbHashes, text \in CacheTexts : PgCacheBegin(c, h, text)
    \/ \E c \in Callers, ok \in BOOLEAN : PgCacheExec(c, ok)
    \/ \E c \in Callers, h \in DbHashes : PgGetSelect(c, h)
    \/ \E c \in Callers, ok \in BOOLEAN : PgGetUpdate(c, ok)

\* ---- managed backend, concurrent callers
\* whether the rows a caller read are no longer the rows of the table
Stale(c) == Select(sb_table, db_req[c].hash) # db_req[c].seen

\* _cache_description_supabase: the select
SbCacheSelect(c, h, text) ==
    /\ db_pc[c] = "idle"
    /\ db_hist.started < MaxCacheCalls
    /\ db_pc' = [db_pc EXCEPT ![c] = "sb_cache_write"]
    /\ db_req' = [db_req EXCEPT ![c] = [hash |-> h, text |-> text,
                                        seen |-> Select(sb_table, h)]]
    /\ db_hist' = Started(db_pc')
    /\ UNCHANGED <<otherThanDb, pg_table, sb_table, sb_unique>>

\* the update of the row read, or the insert of a new row
SbCacheWrite(c) ==
    /\ db_pc[c] = "sb_cache_write"
    /\ LET h == db_req[c].hash
           seen == db_req[c].seen
           inserts == seen = <<>>
           rejected == inserts /\ InsertRejected(sb_table, sb_unique, h)
       IN  /\ sb_table' = IF inserts
                          THEN SbInsert(sb_table, sb_unique, h, db_req[c].text, Clock)
                          ELSE SbUpdate(sb_table, h, db_req[c].text, seen[1].uso_count)
           /\ db_hist' = [db_hist EXCEPT
                             !.caches = IF rejected THEN @ ELSE Bump(@, h),
                             !.latest = IF rejected THEN @
                                        ELSE [@ EXCEPT ![h] = db_req[c].text],
                             !.stale = IF Stale(c) THEN Bump(@, h) ELSE @,
                             !.dups = IF inserts /\ Select(sb_table, h) # <<>>
                                      THEN Bump(@, h) ELSE @]
    /\ db_pc' = [db_pc EXCEPT ![c] = "idle"]
    /\ db_req' = [db_req EXCEPT ![c] = NoReq]
    /\ UNCHANGED <<otherThanDb, pg_table, sb_unique>>

\* _get_cached_description_supabase: the select
SbGetSelect(c, h) ==
    /\ db_pc[c] = "idle"
    /\ db_hist.started < MaxCacheCalls
    /\ LET data == Select(sb_table, h)
       IN  /\ db_pc' = [db_pc EXCEPT ![c] = IF data # <<>> THEN "sb_get_write" ELSE "idle"]
           /\ db_req' = [db_req EXCEPT ![c] = IF data # <<>>
                                              THEN [hash |-> h, text |-> "", seen |-> data]
                                              ELSE NoReq]
    /\ db_hist' = Started(db_pc')
    /\ UNCHANGED <<otherThanDb, pg_table, sb_table, sb_unique>>

\* the update of uso_count to the count read plus one
SbGetWrite(c) ==
    /\ db_pc[c] = "sb_get_write"
    /\ sb_table' = SbUpdateCount(sb_table, db_req[c].hash, db_req[c].seen[1].uso_count)
    /\ db_hist' = [db_hist EXCEPT !.hits = Bump(@, db_req[c].hash),
                                  !.stale = IF Stale(c) THEN Bump(@, db_req[c].hash)
                                            ELSE @]
    /\ db_pc' = [db_pc EXCEPT ![c] = "idle"]
    /\ db_req' = [db_req EXCEPT ![c] = NoReq]
    /\ UNCHANGED <<otherThanDb, pg_table, sb_unique>>

NextCacheSb ==
    \/ \E c \in Callers, h \in DbHashes, text \in CacheTexts : SbCacheSelect(c, h, text)
    \/ \E c \in Callers : SbCacheWrite(c)
    \/ \E c \in Callers, h \in DbHashes : SbGetSelect(c, h)
    \/ \E c \in Callers : SbGetWrite(c)

\* ---- LanguageAgent state
\* the prompt template that produced a stored text: no template before any store
NoMode == "none"

Mode(detailed) == IF detailed THEN "detailed" ELSE "concise"

NoGen == [ran |-> FALSE, n |-> 0]

LangInit ==
    /\ use_supabase = FALSE
    /\ client = "ok"
    /\ gen = NoGen

AgentInit ==
    /\ DbInit
    /\ LangInit
    /\ fn_call = NoFn

(***************************************************************************)
(* LanguageAgent.generate_description and the fallback formatter           *)
(* (Streamlit-Ollama/utils/helpers.py).  The frame is 640 x 480.           *)
(***************************************************************************)
CACHE_DESCRIPTIONS == TRUE

FRAME_WIDTH == 640
FRAME_HEIGHT == 480

\* f"{confidence:.0%}"
PercentText(confidence) == ToString(confidence) \o "%"

\* one detection: name, horizontal position, vertical position, low confidence
SpatialPhrase(det) ==
    LET horizontal_pos == IF det.x_center * 100 < FRAME_WIDTH * 33
                          THEN "a tu izquierda"
                          ELSE IF det.x_center * 100 > FRAME_WIDTH * 67
                          THEN "a tu derecha" ELSE "frente a ti"
        vertical_pos == IF det.y_center * 100 < FRAME_HEIGHT * 33 THEN "arriba"
                        ELSE IF det.y_center * 100 > FRAME_HEIGHT * 67 THEN "abajo"
                        ELSE "a la altura"
        conf_text == IF det.confidence < 70
                     THEN " (confianza: " \o PercentText(det.confidence) \o ")" ELSE ""
    IN  det.name \o " " \o horizontal_pos \o ", " \o vertical_pos \o conf_text

RECURSIVE JoinPhrases(_)
JoinPhrases(detections) ==
    IF Len(detections) = 1 THEN SpatialPhrase(detections[1])
    ELSE SpatialPhrase(Head(detections)) \o ". " \o JoinPhrases(Tail(detections))

format_spatial_description(detections) ==
    IF detections = <<>> THEN "No se detectaron objetos en el entorno."
    ELSE JoinPhrases(detections) \o "."

_generate_simple_description(detections) == format_spatial_description(detections)

\* what client.generate does: answers, or raises one of the two kinds of exception
ModelOutcomes == {"response", "ConnectionError", "Exception"}

\* the answer after strip() and _clean_description; an empty answer stays empty
CleanedTexts == {""} \cup CacheTexts

MaxGenerations == 2

\* Python truth of the value returned by get_cached_description
Truthy(value) == value # None /\ value # ""

CacheTable == IF use_supabase THEN sb_table ELSE pg_table

get_cached_description(table, h, t) ==
    IF use_supabase THEN _get_cached_description_supabase(table, h)
    ELSE _get_cached_description_postgres(table, h, t)

cache_description(table, h, text, t) ==
    IF use_supabase THEN _cache_description_supabase(table, sb_unique, h, text, t)
    ELSE _cache_description_postgres(table, h, text, t)

StoresDescription_Always(succeeded, caching) == caching

\* cache_description is called on the success path only
StoresDescription(succeeded, caching) == succeeded /\ caching

\* the whole call; lookup_ok and store_ok are whether the two database calls work
\* (a failing one logs and returns None / False)
Generated(detections, use_cache, lookup_ok, outcome, description, store_ok) ==
    LET caching == use_cache /\ CACHE_DESCRIPTIONS
        h == _create_hash_from_detections(detections)
        looked == IF caching /\ lookup_ok
                  THEN get_cached_description(CacheTable, h, gen.n)
                  ELSE [table |-> CacheTable, value |-> None]
        hit == caching /\ Truthy(looked.value)
        calls_model == ~hit /\ detections # <<>> /\ client # "none"
        succeeded == calls_model /\ outcome = "response"
        stores == ~hit /\ StoresDescription(succeeded, caching)
        stored == IF stores /\ store_ok
                  THEN cache_description(looked.table, h, description, gen.n)
                  ELSE [table |-> looked.table, value |-> FALSE]
    IN  [ran |-> TRUE, n |-> gen.n + 1, detections |-> detections,
         stored |-> stores /\ store_ok /\ stored.value,
         caching |-> caching, lookup_ok |-> lookup_ok, client |-> client,
         entry |-> Select(CacheTable, h), hit |-> hit,
         model_called |-> calls_model,
         outcome |-> IF calls_model THEN outcome ELSE "none",
         cache_description_called |-> stores,
         returned |-> IF hit THEN looked.value
                      ELSE IF detections = <<>> THEN NoObjectsSentence
                      ELSE IF succeeded THEN description
                      ELSE _generate_simple_description(detections),
         raised |-> FALSE,
         table_before |-> CacheTable, table_after |-> stored.table]

\* the history of the detail modes, kept in behaviours that start with NoModes:
\* the mode of the last request, the mode of the request whose answer each key
\* holds, and the mode behind the text a hit returned
NoModes ==
    [op |-> "generate_description", detailed |-> FALSE, hit |-> FALSE,
     cached_mode |-> NoMode, modes |-> [h \in DbHashes |-> NoMode]]

ModeHistory(c, g, detailed) ==
    LET h == _create_hash_from_detections(g.detections)
    IN  [op |-> "generate_description", detailed |-> detailed,
         hit |-> g.hit,
         cached_mode |-> IF g.hit THEN c.modes[h] ELSE NoMode,
         modes |-> IF g.stored THEN [c.modes EXCEPT ![h] = Mode(detailed)]
                   ELSE c.modes]

\* detailed selects the template of _build_prompt and nothing else: answer is the
\* cleaned text the model returns for the prompt of this request
generate_description(detections, detailed, use_cache, lookup_ok, outcome, answer, store_ok) ==
    /\ gen.n < MaxGenerations
    /\ gen' = Generated(detections, use_cache, lookup_ok, outcome, answer, store_ok)
    /\ call' = IF call.op = "generate_description"
               THEN ModeHistory(call, gen', detailed)
               ELSE call
    /\ IF use_supabase
       THEN sb_table' = gen'.table_after /\ UNCHANGED pg_table
       ELSE pg_table' = gen'.table_after /\ UNCHANGED sb_table
    /\ UNCHANGED <<now, alertVars, voiceVars, pipeVars, browserVars, sessionVars, sb_unique,
                   db_pc, db_req, db_hist, use_supabase, client, fn_call>>

\* a new session builds its LanguageAgent on the same database; _initialize_client
\* leaves client None when the constructor of the client raises
_initialize_client(ok) ==
    /\ client' = IF ok THEN "ok" ELSE "none"
    /\ client' # client
    /\ UNCHANGED <<now, alertVars, call, voiceVars, pipeVars, browserVars, sessionVars, pg_table,
                   sb_table, sb_unique, db_pc, db_req, db_hist, use_supabase, gen,
                   fn_call>>

\* the model answers with a text only when the request to it succeeds
Answers(outcome) == IF outcome = "response" THEN CleanedTexts ELSE {""}

GenerateStep ==
    \E detections \in AgentDetections, detailed \in BOOLEAN, use_cache \in BOOLEAN,
       lookup_ok \in BOOLEAN, outcome \in ModelOutcomes, store_ok \in BOOLEAN :
        \E description \in Answers(outcome) :
            generate_description(detections, detailed, use_cache, lookup_ok, outcome,
                                 description, store_ok)

NextLanguage ==
    \/ GenerateStep
    \/ \E ok \in BOOLEAN : _initialize_client(ok)

(***************************************************************************)
(* LanguageAgent._clean_description.  A text is a sequence of one-letter   *)
(* strings; indexes named as in Python count from 0.                       *)
(***************************************************************************)
MAX_DESCRIPTION_LENGTH == 500

EndMarks == {".", "!", "?"}

\* the largest member of a non-empty set of numbers
Largest(S) == CHOOSE m \in S : \A x \in S : x <= m

\* ' '.join(description.split()): runs of blanks become one blank, none at the ends
JoinSplit(s) ==
    LET n == Len(s)
        letters == {i \in 1..n : s[i] # " "}
        last == IF letters = {} THEN 0 ELSE Largest(letters)
        kept == SelectSeq([i \in 1..n |-> i],
                          LAMBDA i : s[i] # " " \/ (i > 1 /\ i < last /\ s[i - 1] # " "))
    IN  [k \in 1..Len(kept) |-> s[kept[k]]]

\* s[:n]
Prefix(s, n) == SubSeq(s, 1, IF n < Len(s) THEN n ELSE Len(s))

\* s.rfind(ch): 0-based index of the last ch, -1 when there is none
rfind(s, ch) ==
    LET where == {i \in 1..Len(s) : s[i] = ch}
    IN  IF where = {} THEN -1 ELSE Largest(where) - 1

\* s.rsplit(' ', 1)[0]: what precedes the last blank, all of s when it has none
BeforeLastBlank(s) ==
    IF rfind(s, " ") = -1 THEN s ELSE Prefix(s, rfind(s, " "))

\* s.strip()
Strip(s) ==
    LET letters == {i \in 1..Len(s) : s[i] # " "}
    IN  IF letters = {} THEN <<>>
        ELSE SubSeq(s, CHOOSE m \in letters : \A x \in letters : m <= x, Largest(letters))

NearLimit_Inclusive(last_punctuation) == last_punctuation * 10 >= MAX_DESCRIPTION_LENGTH * 7

\* last_punctuation > MAX_DESCRIPTION_LENGTH * 0.7
NearLimit(last_punctuation) == last_punctuation * 10 > MAX_DESCRIPTION_LENGTH * 7

\* the body of "if len(description) > MAX_DESCRIPTION_LENGTH"
Truncated(description) ==
    LET truncated == Prefix(description, MAX_DESCRIPTION_LENGTH)
        last_punctuation == Largest({rfind(truncated, "."), rfind(truncated, "!"),
                                     rfind(truncated, "?")})
    IN  IF NearLimit(last_punctuation) THEN Prefix(description, last_punctuation + 1)
        ELSE BeforeLastBlank(truncated) \o <<".">>

_clean_description(raw) ==
    LET joined == JoinSplit(raw)
        cut == IF Len(joined) > MAX_DESCRIPTION_LENGTH THEN Truncated(joined) ELSE joined
        ended == IF cut # <<>> /\ cut[Len(cut)] \notin EndMarks
                 THEN cut \o <<".">> ELSE cut
    IN  Strip(ended)

\* ---- the texts cleaned: letters with at most one end mark and a few blanks
TextOf(length, mark_at, mark, blanks) ==
    [i \in 1..length |-> IF i = mark_at THEN mark ELSE IF i \in blanks THEN " " ELSE "a"]

Extra == 20

TextLengths ==
    {MAX_DESCRIPTION_LENGTH, MAX_DESCRIPTION_LENGTH + 1, MAX_DESCRIPTION_LENGTH + Extra}

\* where the end mark is (1-based; 0 is no mark): early, around 70%, late, at the
\* limit and past it
MarkPlaces ==
    LET limit == (MAX_DESCRIPTION_LENGTH * 7) \div 10
    IN  {0, MAX_DESCRIPTION_LENGTH \div 5, limit, limit + 1, limit + 2,
         MAX_DESCRIPTION_LENGTH - Extra, MAX_DESCRIPTION_LENGTH,
         MAX_DESCRIPTION_LENGTH + 1}

\* where the blanks are: none, one late, one early, two in a row, one after the limit
BlankPlaces ==
    {{}, {MAX_DESCRIPTION_LENGTH - Extra \div 2}, {MAX_DESCRIPTION_LENGTH \div 2},
     {MAX_DESCRIPTION_LENGTH \div 2, MAX_DESCRIPTION_LENGTH \div 2 + 1},
     {MAX_DESCRIPTION_LENGTH + 2}}

CleanCalls ==
    {[fn |-> "clean", text |-> TextOf(l, m, k, b), done |-> FALSE, result |-> <<>>] :
        l \in TextLengths, m \in MarkPlaces, k \in EndMarks, b \in BlankPlaces}

CallClean ==
    /\ fn_call.fn = "clean"
    /\ ~fn_call.done
    /\ fn_call' = [fn_call EXCEPT !.done = TRUE,
                                  !.result = _clean_description(fn_call.text)]
    /\ UNCHANGED <<now, alertVars, call, voiceVars, pipeVars, browserVars, sessionVars, pg_table,
                   sb_table, sb_unique, db_pc, db_req, db_hist, use_supabase, client, gen>>

(***************************************************************************)
(* DatabaseManager (modules/database_manager.py): user profiles, table     *)
(* usuarios.  A row is [id, nombre, velocidad_habla, volumen,              *)
(* modo_detallado, preferencias_tts, updated_at]; volumen is in            *)
(* hundredths; a JSONB value is [kind, text]; CURRENT_TIMESTAMP is the     *)
(* number of calls made so far.  Calls are made one after another, each on *)
(* a direct and on a managed DatabaseManager.                              *)
(***************************************************************************)
\* the empty mapping {} returned on an error
EmptyMapping == [empty |-> TRUE]

DEFAULT_VELOCIDAD_HABLA == 150
DEFAULT_VOLUMEN == 80

JsonObject(text) == [kind |-> "object", text |-> text]
JsonString(text) == [kind |-> "string", text |-> text]

\* the column defaults of usuarios, which are also the values new_user spells out
NewUser(id, nombre, t) ==
    [id |-> id, nombre |-> nombre, velocidad_habla |-> DEFAULT_VELOCIDAD_HABLA,
     volumen |-> DEFAULT_VOLUMEN, modo_detallado |-> FALSE,
     preferencias_tts |-> JsonObject("{}"), updated_at |-> t]

FindUser_Nobody(table, nombre) == <<>>

\* SELECT * FROM usuarios WHERE nombre = ... / .select('*').eq('nombre', nombre)
FindUser(table, nombre) == SelectSeq(table, LAMBDA r : r.nombre = nombre)

\* id SERIAL
NextId(table) == Len(table) + 1

\* _create_or_get_user_postgres: [table, value]; ok is whether the statements work
_create_or_get_user_postgres(table, nombre, ok, t) ==
    LET user == FindUser(table, nombre)
    IN  IF ~ok THEN [table |-> table, value |-> EmptyMapping]
        ELSE IF user # <<>> THEN [table |-> table, value |-> user[1]]
        ELSE [table |-> Append(table, NewUser(NextId(table), nombre, t)),
              value |-> NewUser(NextId(table), nombre, t)]

\* _create_or_get_user_supabase: outcome is "ok", "error" (a request raises) or
\* "nodata" (the insert is done and its response carries no row)
_create_or_get_user_supabase(table, nombre, outcome, t) ==
    LET data == FindUser(table, nombre)
    IN  IF outcome = "error" THEN [table |-> table, value |-> EmptyMapping]
        ELSE IF data # <<>> THEN [table |-> table, value |-> data[1]]
        ELSE [table |-> Append(table, NewUser(NextId(table), nombre, t)),
              value |-> IF outcome = "nodata" THEN EmptyMapping
                        ELSE NewUser(NextId(table), nombre, t)]

RecognizedKeys == {"velocidad_habla", "volumen", "modo_detallado", "preferencias_tts"}

\* the row after SET of the supplied recognized fields
WithPreferences(row, preferencias, tts) ==
    [row EXCEPT
        !.velocidad_habla = IF "velocidad_habla" \in preferencias.keys
                            THEN preferencias.velocidad_habla ELSE @,
        !.volumen = IF "volumen" \in preferencias.keys THEN preferencias.volumen ELSE @,
        !.modo_detallado = IF "modo_detallado" \in preferencias.keys
                           THEN preferencias.modo_detallado ELSE @,
        !.preferencias_tts = IF "preferencias_tts" \in preferencias.keys THEN tts ELSE @]

\* UPDATE usuarios SET ... WHERE id = usuario_id
UpdateUser(table, usuario_id, preferencias, tts, touch, t) ==
    [i \in 1..Len(table) |->
        IF table[i].id = usuario_id
        THEN [WithPreferences(table[i], preferencias, tts)
                 EXCEPT !.updated_at = IF touch THEN t ELSE @]
        ELSE table[i]]

\* psycopg2 has no adapter for a dict parameter: cursor.execute raises
AdaptFails_Never(preferencias) == FALSE

AdaptFails(preferencias) ==
    "preferencias_tts" \in preferencias.keys /\ preferencias.tts_type = "dict"

\* _update_user_preferences_postgres: a str parameter is cast to JSONB
_update_user_preferences_postgres(table, usuario_id, preferencias, ok, t) ==
    LET updates == preferencias.keys \cap RecognizedKeys
    IN  IF ~ok THEN [table |-> table, value |-> FALSE]
        ELSE IF updates = {} THEN [table |-> table, value |-> FALSE]
        ELSE IF AdaptFails(preferencias) THEN [table |-> table, value |-> FALSE]
        ELSE [table |-> UpdateUser(table, usuario_id, preferencias,
                                   JsonObject(preferencias.tts_text), TRUE, t),
              value |-> TRUE]

\* _update_user_preferences_supabase: the value goes into the JSON body as it is
_update_user_preferences_supabase(table, usuario_id, preferencias, ok, t) ==
    LET update_data == preferencias.keys \cap RecognizedKeys
        tts == IF preferencias.tts_type = "dict" THEN JsonObject(preferencias.tts_text)
               ELSE JsonString(preferencias.tts_text)
    IN  IF update_data = {} THEN [table |-> table, value |-> FALSE]
        ELSE IF ~ok THEN [table |-> table, value |-> FALSE]
        ELSE [table |-> UpdateUser(table, usuario_id, preferencias, tts, FALSE, t),
              value |-> TRUE]

MaxUserCalls == 3

UserNames == {"default", "ana"}
UserIds == {1, 2}

KeySets ==
    {{}, {"idioma"}, {"velocidad_habla"}, {"volumen", "modo_detallado", "idioma"},
     {"preferencias_tts", "volumen"}}

\* the preferencias argument: the keys supplied and the value given for each
Preferencias ==
    {[keys |-> k, velocidad_habla |-> 200, volumen |-> 50, modo_detallado |-> TRUE,
      tts_type |-> ty, tts_text |-> "{\"voz\": \"es\"}"] :
        k \in KeySets, ty \in {"dict", "str"}}
    \ {[keys |-> k, velocidad_habla |-> 200, volumen |-> 50, modo_detallado |-> TRUE,
         tts_type |-> "str", tts_text |-> "{\"voz\": \"es\"}"] :
           k \in {s \in KeySets : "preferencias_tts" \notin s}}

NoUserCall == [op |-> "none", n |-> 0]

create_or_get_user(nombre, ok, outcome) ==
    /\ usr.n < MaxUserCalls
    /\ LET pg == _create_or_get_user_postgres(pg_users, nombre, ok, usr.n)
           sb == _create_or_get_user_supabase(sb_users, nombre, outcome, usr.n)
       IN  /\ pg_users' = pg.table
           /\ sb_users' = sb.table
           /\ usr' = [op |-> "create_or_get_user", n |-> usr.n + 1, nombre |-> nombre,
                      ok |-> ok, outcome |-> outcome, pg_value |-> pg.value,
                      sb_value |-> sb.value, pg_before |-> pg_users,
                      sb_before |-> sb_users, raised |-> FALSE]
    /\ UNCHANGED <<now, alertVars, call, voiceVars, pipeVars, browserVars, agentVars,
                   vision, camera, audio_det, shared, alert_calls, asst>>

update_user_preferences(usuario_id, preferencias, ok) ==
    /\ usr.n < MaxUserCalls
    /\ LET pg == _update_user_preferences_postgres(pg_users, usuario_id, preferencias,
                                                   ok, usr.n)
           sb == _update_user_preferences_supabase(sb_users, usuario_id, preferencias,
                                                   ok, usr.n)
       IN  /\ pg_users' = pg.table
           /\ sb_users' = sb.table
           /\ usr' = [op |-> "update_user_preferences", n |-> usr.n + 1,
                      usuario_id |-> usuario_id, preferencias |-> preferencias,
                      ok |-> ok, pg_value |-> pg.value, sb_value |-> sb.value,
                      pg_before |-> pg_users, sb_before |-> sb_users, raised |-> FALSE]
    /\ UNCHANGED <<now, alertVars, call, voiceVars, pipeVars, browserVars, agentVars,
                   vision, camera, audio_det, shared, alert_calls, asst>>

NextUsers ==
    \/ \E nombre \in UserNames, ok \in BOOLEAN, outcome \in {"ok", "error", "nodata"} :
          create_or_get_user(nombre, ok, outcome)
    \/ \E usuario_id \in UserIds, preferencias \in Preferencias, ok \in BOOLEAN :
          update_user_preferences(usuario_id, preferencias, ok)

UsersInit ==
    /\ pg_users = <<>>
    /\ sb_users = <<>>
    /\ usr = NoUserCall

(***************************************************************************)
(* ObstacleAssistant life cycle (obstacle_assistant.py: start, stop, main, *)
(* the three worker loops).  asst holds the running flag, the position of  *)
(* main and of stop(), the position of each worker thread ("none": not     *)
(* started, "start", "test": at the while test, "body", "done"), the GUI   *)
(* window and the microphone stream.  The alert system and the voice       *)
(* announcer are the variables of their own sections.                      *)
(***************************************************************************)
Workers == {"video", "detection", "audio"}

\* ObstacleAssistant.__init__ with its components built; gui: ENABLE_GUI and the
\* window could be created; audio_detector: start_listening() worked
NewAssistant(gui, audio_detector) ==
    [running |-> FALSE, main |-> "init",
     gui |-> IF gui THEN "ready" ELSE "none",
     audio_detector |-> audio_detector, is_listening |-> audio_detector,
     thread |-> [w \in Workers |-> "none"],
     stop_pc |-> "idle", stops |-> 0, stopped |-> FALSE, quit |-> FALSE]

AsstInit == asst = NewAssistant(TRUE, TRUE)

MaxStops == 2    \* stop() calls in one behaviour

asstFrame == <<now, alertVars, call, voiceVars, pipeVars, browserVars, agentVars,
               pg_users, sb_users, usr, vision, camera, audio_det, shared, alert_calls>>

\* start(): sets the flag and starts the threads; main() runs the GUI meanwhile
start ==
    /\ asst.main = "init"
    /\ ~asst.running
    /\ asst' = [asst EXCEPT
                  !.running = TRUE, !.main = "running",
                  !.gui = IF asst.gui = "ready" THEN "running" ELSE @,
                  !.thread = [w \in Workers |->
                                 IF w = "video" THEN "start"
                                 ELSE IF w = "audio" /\ ~asst.audio_detector THEN "none"
                                 ELSE "test"]]
    /\ UNCHANGED asstFrame

\* _video_capture_thread, lines 140-144: a camera that does not open ends the thread
VideoOpen(opened) ==
    /\ asst.thread["video"] = "start"
    /\ asst' = [asst EXCEPT !.thread["video"] = IF opened THEN "test" ELSE "done"]
    /\ UNCHANGED asstFrame

\* Mutant of the loop test: the loops do not look at the flag
LoopRuns_Always(running) == TRUE

\* "while self.running"
LoopRuns(running) == running

LoopTest(w) ==
    /\ asst.thread[w] = "test"
    /\ asst' = [asst EXCEPT !.thread[w] = IF LoopRuns(asst.running) THEN "body" ELSE "done"]
    /\ UNCHANGED asstFrame

\* one pass of _detection_thread or _audio_detection_thread: the read returns
LoopBody(w) ==
    /\ w # "video"
    /\ asst.thread[w] = "body"
    /\ asst' = [asst EXCEPT !.thread[w] = "test"]
    /\ UNCHANGED asstFrame

\* one pass of _video_capture_thread; quit_key: cv2.waitKey returned 'q'
\* (lines 242-245: the flag is cleared and the loop is left)
VideoBody(quit_key) ==
    /\ asst.thread["video"] = "body"
    /\ asst' = IF quit_key
               THEN [asst EXCEPT !.running = FALSE, !.quit = TRUE, !.thread["video"] = "done"]
               ELSE [asst EXCEPT !.thread["video"] = "test"]
    /\ UNCHANGED asstFrame

\* the user closes the GUI window: gui.run() returns in main()
on_closing ==
    /\ asst.gui = "running"
    /\ asst.main = "running"
    /\ asst' = [asst EXCEPT !.gui = "closed"]
    /\ UNCHANGED asstFrame

\* stop(), lines 473-474
StopReturnsEarly(running) == ~running

\* stop() is entered: from the finally of main() once gui.run() has returned, from
\* a KeyboardInterrupt while main() waits, or once more after it has returned
stop ==
    /\ asst.stops < MaxStops
    /\ \/ asst.main = "running" /\ asst.gui \in {"none", "closed", "running"}
       \/ asst.main = "stop" /\ asst.stop_pc = "returned"
    /\ asst' = IF StopReturnsEarly(asst.running)
               THEN [asst EXCEPT !.main = "stop", !.stop_pc = "returned", !.stops = @ + 1]
               ELSE [asst EXCEPT !.main = "stop", !.stop_pc = "gui", !.stops = @ + 1,
                                 !.running = FALSE]
    /\ UNCHANGED asstFrame

\* stop(), lines 480-482
StopGui ==
    /\ asst.stop_pc = "gui"
    /\ asst' = [asst EXCEPT !.stop_pc = "alert",
                            !.gui = IF asst.gui = "none" THEN "none" ELSE "stopped"]
    /\ UNCHANGED asstFrame

\* stop(), lines 485-486: ObstacleAlert.stop() is set_enabled(False)
StopAlert ==
    /\ asst.stop_pc = "alert"
    /\ asst' = [asst EXCEPT !.stop_pc = "noise"]
    /\ alert_enabled' = FALSE
    /\ alert_queue' = <<>>
    /\ UNCHANGED <<now, last_alert_time, alert_pc, play_until, alert_log, nfired, call,
                   voiceVars, pipeVars, browserVars, agentVars, pg_users, sb_users, usr,
                   vision, camera, audio_det, shared, alert_calls>>

\* stop(), lines 488-489: AudioDetector.stop_listening()
StopNoise ==
    /\ asst.stop_pc = "noise"
    /\ asst' = [asst EXCEPT !.stop_pc = "voice", !.is_listening = FALSE]
    /\ UNCHANGED asstFrame

\* stop(), lines 491-492: VoiceAnnouncer.stop() is set_enabled(False)
StopVoice ==
    /\ asst.stop_pc = "voice"
    /\ asst' = [asst EXCEPT !.stop_pc = "join"]
    /\ voice_enabled' = FALSE
    /\ voice_queue' = <<>>
    /\ UNCHANGED <<now, alertVars, call, engine_name, engine, last_announcement_time,
                   is_speaking, ann_pc, ann_message, ann_result, pipeVars, browserVars,
                   agentVars, pg_users, sb_users, usr, vision, camera, audio_det, shared, alert_calls>>

\* stop(), lines 495-504: each join has a timeout, so this step needs no thread
\* to have ended
StopJoin ==
    /\ asst.stop_pc = "join"
    /\ asst' = [asst EXCEPT !.stop_pc = "returned", !.stopped = TRUE]
    /\ UNCHANGED asstFrame

\* main() ends: without a GUI when start() has joined the three threads, else
\* when the stop() of its finally has returned
MainReturns ==
    /\ \/ /\ asst.main = "running" /\ asst.gui = "none"
          /\ \A w \in Workers : asst.thread[w] \in {"none", "done"}
       \/ asst.main = "stop" /\ asst.stop_pc = "returned"
    /\ asst' = [asst EXCEPT !.main = "finished"]
    /\ UNCHANGED asstFrame

NextAssistant ==
    \/ start
    \/ \E opened \in BOOLEAN : VideoOpen(opened)
    \/ \E w \in Workers : LoopTest(w)
    \/ \E w \in Workers : LoopBody(w)
    \/ \E quit_key \in BOOLEAN : VideoBody(quit_key)
    \/ on_closing
    \/ stop
    \/ StopGui
    \/ StopAlert
    \/ StopNoise
    \/ StopVoice
    \/ StopJoin
    \/ MainReturns

\* the browser session: app.py builds the basic agent and holds no camera
(***************************************************************************)
(* Standalone orchestrator: the list of current detections shared by the   *)
(* detection loop and the capture loop (obstacle_assistant.py).  A         *)
(* detection record is a dict; heap[a] is the dict at reference a.         *)
(***************************************************************************)
MaxSharedFrames == 2     \* frames the detection loop processes in one behaviour
MaxSharedDetections == 2 \* detections of one frame
MaxDraws == 2            \* frames the capture loop draws in one behaviour

NoRef == 0

\* __init__, lines 57-58
NewShared ==
    [detections_lock |-> "free", heap |-> <<>>, current_detections |-> <<>>,
     det |-> [pc |-> "idle", detections |-> <<>>, i |-> 0, writing |-> NoRef, frames |-> 0],
     cap |-> [pc |-> "idle", current_detections |-> <<>>, i |-> 0, reading |-> NoRef,
              draws |-> 0]]

\* list.copy(): a new list holding the same references
ListCopy(refs) == refs

\* line 288: detect_objects returns a list of n new records
SharedDetect(n) ==
    /\ shared.det.pc = "idle"
    /\ shared.det.frames < MaxSharedFrames
    /\ LET first == Len(shared.heap) + 1
           refs == [k \in 1..n |-> first + k - 1]
       IN shared' = [shared EXCEPT
                       !.heap = @ \o [k \in 1..n |-> [obstacle_type |-> ""]],
                       !.det.detections = refs,
                       !.det.frames = @ + 1,
                       !.det.pc = "acquire"]
    /\ UNCHANGED <<now, alertVars, call, voiceVars, pipeVars, browserVars, agentVars,
                   pg_users, sb_users, usr, vision, camera, audio_det, alert_calls, asst>>

\* line 291 (detection loop) and line 168 (capture loop): with self.detections_lock
Acquire(thread) ==
    /\ shared[thread].pc = "acquire"
    /\ shared.detections_lock = "free"
    /\ shared' = [shared EXCEPT !.detections_lock = thread, ![thread].pc = "locked"]
    /\ UNCHANGED <<now, alertVars, call, voiceVars, pipeVars, browserVars, agentVars,
                   pg_users, sb_users, usr, vision, camera, audio_det, alert_calls, asst>>

\* line 292, and the end of the with block
Publish ==
    /\ shared.det.pc = "locked"
    /\ shared' = [shared EXCEPT
                    !.current_detections = ListCopy(shared.det.detections),
                    !.detections_lock = "free",
                    !.det.i = 1,
                    !.det.pc = IF shared.det.detections = <<>> THEN "idle" ELSE "loop"]
    /\ UNCHANGED <<now, alertVars, call, voiceVars, pipeVars, browserVars, agentVars,
                   pg_users, sb_users, usr, vision, camera, audio_det, alert_calls, asst>>

\* line 305: detection['obstacle_type'] = obstacle_type, on the record of the
\* list detect_objects returned; the store begins ...
WriteBegin ==
    /\ shared.det.pc = "loop"
    /\ shared' = [shared EXCEPT !.det.writing = shared.det.detections[shared.det.i],
                                !.det.pc = "writing"]
    /\ UNCHANGED <<now, alertVars, call, voiceVars, pipeVars, browserVars, agentVars,
                   pg_users, sb_users, usr, vision, camera, audio_det, alert_calls, asst>>

\* ... and ends; lines 308-349 do not touch the shared list
WriteEnd ==
    /\ shared.det.pc = "writing"
    /\ shared' = [shared EXCEPT
                    !.heap[shared.det.writing].obstacle_type = "object",
                    !.det.writing = NoRef,
                    !.det.i = @ + 1,
                    !.det.pc = IF shared.det.i = Len(shared.det.detections)
                               THEN "idle" ELSE "loop"]
    /\ UNCHANGED <<now, alertVars, call, voiceVars, pipeVars, browserVars, agentVars,
                   pg_users, sb_users, usr, vision, camera, audio_det, alert_calls, asst>>

\* line 163: the capture loop has a frame to draw
DrawFrame ==
    /\ shared.cap.pc = "idle"
    /\ shared.cap.draws < MaxDraws
    /\ shared' = [shared EXCEPT !.cap.pc = "acquire", !.cap.draws = @ + 1]
    /\ UNCHANGED <<now, alertVars, call, voiceVars, pipeVars, browserVars, agentVars,
                   pg_users, sb_users, usr, vision, camera, audio_det, alert_calls, asst>>

\* line 169, and the end of the with block
CopyCurrent ==
    /\ shared.cap.pc = "locked"
    /\ shared' = [shared EXCEPT
                    !.cap.current_detections = ListCopy(shared.current_detections),
                    !.detections_lock = "free",
                    !.cap.i = 1,
                    !.cap.pc = IF shared.current_detections = <<>> THEN "idle" ELSE "draw"]
    /\ UNCHANGED <<now, alertVars, call, voiceVars, pipeVars, browserVars, agentVars,
                   pg_users, sb_users, usr, vision, camera, audio_det, alert_calls, asst>>

\* lines 172-181: the fields of the next record are read ...
ReadBegin ==
    /\ shared.cap.pc = "draw"
    /\ shared' = [shared EXCEPT
                    !.cap.reading = shared.cap.current_detections[shared.cap.i],
                    !.cap.pc = "reading"]
    /\ UNCHANGED <<now, alertVars, call, voiceVars, pipeVars, browserVars, agentVars,
                   pg_users, sb_users, usr, vision, camera, audio_det, alert_calls, asst>>

\* ... up to is_center, line 181
ReadEnd ==
    /\ shared.cap.pc = "reading"
    /\ shared' = [shared EXCEPT
                    !.cap.reading = NoRef,
                    !.cap.i = @ + 1,
                    !.cap.pc = IF shared.cap.i = Len(shared.cap.current_detections)
                               THEN "idle" ELSE "draw"]
    /\ UNCHANGED <<now, alertVars, call, voiceVars, pipeVars, browserVars, agentVars,
                   pg_users, sb_users, usr, vision, camera, audio_det, alert_calls, asst>>

NextShared ==
    \/ \E n \in 0..MaxSharedDetections : SharedDetect(n)
    \/ \E thread \in {"det", "cap"} : Acquire(thread)
    \/ Publish
    \/ WriteBegin
    \/ WriteEnd
    \/ DrawFrame
    \/ CopyCurrent
    \/ ReadBegin
    \/ ReadEnd

(***************************************************************************)
(* Obstacle Alert System, statement by statement: the producers, the       *)
(* playback worker and set_enabled/stop run in three threads and share     *)
(* enabled and the queue with no lock (obstacle_alert.py).                 *)
(***************************************************************************)
MaxSetCalls == 2      \* set_enabled/stop calls in one behaviour
MaxRaceCalls == 2     \* alert_obstacle/alert_noise calls in one behaviour
MaxRaceTicks == 1     \* clock ticks of AlertTickMs

\* no call in progress; off: set_enabled(False) or stop() has returned and
\* alerts were not enabled again; late: tones started while off
NoAlertCalls ==
    [producer |-> <<>>, taken |-> <<>>, setter |-> "idle", sets |-> 0,
     off |-> FALSE, late |-> 0]

\* alert_obstacle, lines 160-195 / alert_noise, lines 211-239: enabled is read
\* and the message built; ms is empty when the call returns early
ProducerBuilds(ms) ==
    /\ alert_calls.producer = <<>>
    /\ nfired < MaxRaceCalls
    /\ nfired' = nfired + 1
    /\ alert_calls' = [alert_calls EXCEPT !.producer = ms]
    /\ UNCHANGED <<now, alert_enabled, alert_queue, last_alert_time, alert_pc, play_until,
                   alert_log, call, voiceVars, pipeVars, browserVars, agentVars,
                   pg_users, sb_users, usr, vision, camera, audio_det, shared, asst>>

ObstacleBuilds ==
    \E d \in TimedObstacles :
        ProducerBuilds(AlertObstacleMessages(alert_enabled, d[1], d[2],
                                             PipelinePriority(d[1], d[3]), d[3], now))

NoiseBuilds ==
    \E n \in TimedNoises :
        ProducerBuilds(IF alert_enabled THEN <<NoiseMessage(n, now)>> ELSE <<>>)

\* lines 197-201 / 241-244: alert_queue.put(alert_data, block=False)
ProducerPuts ==
    /\ alert_calls.producer # <<>>
    /\ alert_queue' = PutNoWait(alert_queue, AlertQueueMaxsize, alert_calls.producer[1])
    /\ alert_calls' = [alert_calls EXCEPT !.producer = <<>>]
    /\ UNCHANGED <<now, alert_enabled, last_alert_time, alert_pc, play_until, alert_log,
                   nfired, call, voiceVars, pipeVars, browserVars, agentVars,
                   pg_users, sb_users, usr, vision, camera, audio_det, shared, asst>>

\* _process_alerts, line 70: alert_queue.get
WorkerGets ==
    /\ alert_pc = "idle"
    /\ alert_queue # <<>>
    /\ alert_queue' = QueueGet(alert_queue).rest
    /\ alert_calls' = [alert_calls EXCEPT !.taken = <<QueueGet(alert_queue).item>>]
    /\ alert_pc' = "taken"
    /\ UNCHANGED <<now, alert_enabled, last_alert_time, play_until, alert_log,
                   nfired, call, voiceVars, pipeVars, browserVars, agentVars,
                   pg_users, sb_users, usr, vision, camera, audio_det, shared, asst>>

\* _play_alert, lines 81-97: the enabled test and the debounce
WorkerChecks ==
    /\ alert_pc = "taken"
    /\ LET m == alert_calls.taken[1]
           key == AlertKey(m)
       IN IF ~alert_enabled
          THEN /\ alert_pc' = "idle"
               /\ alert_calls' = [alert_calls EXCEPT !.taken = <<>>]
               /\ UNCHANGED last_alert_time
          ELSE IF Debounced(last_alert_time, key, now)
          THEN /\ alert_pc' = "idle"
               /\ alert_calls' = [alert_calls EXCEPT !.taken = <<>>]
               /\ UNCHANGED last_alert_time
          ELSE /\ last_alert_time' = Stamp(last_alert_time, key, now)
               /\ alert_pc' = "starting"
               /\ UNCHANGED alert_calls
    /\ UNCHANGED <<now, alert_enabled, alert_queue, play_until, alert_log,
                   nfired, call, voiceVars, pipeVars, browserVars, agentVars,
                   pg_users, sb_users, usr, vision, camera, audio_det, shared, asst>>

\* _play_alert, lines 99-103: the tone starts (or the backend raises at once)
WorkerStarts ==
    /\ alert_pc = "starting"
    /\ LET m == alert_calls.taken[1]
       IN \E backend_ok \in BOOLEAN :
            play_until' = IF backend_ok THEN now + m.duration ELSE now
    /\ alert_pc' = "playing"
    /\ alert_calls' = [alert_calls EXCEPT
                         !.taken = <<>>,
                         !.late = IF alert_calls.off THEN @ + 1 ELSE @]
    /\ UNCHANGED <<now, alert_enabled, alert_queue, last_alert_time, alert_log,
                   nfired, call, voiceVars, pipeVars, browserVars, agentVars,
                   pg_users, sb_users, usr, vision, camera, audio_det, shared, asst>>

\* set_enabled, line 248 (stop() is set_enabled(False), line 259): the store;
\* set_enabled(True) returns here
SetterStores(enabled) ==
    /\ alert_calls.setter = "idle"
    /\ alert_calls.sets < MaxSetCalls
    /\ alert_enabled' = enabled
    /\ alert_calls' = [alert_calls EXCEPT
                         !.sets = @ + 1,
                         !.setter = IF enabled THEN "idle" ELSE "draining",
                         !.off = FALSE]
    /\ UNCHANGED <<now, alert_queue, last_alert_time, alert_pc, play_until, alert_log,
                   nfired, call, voiceVars, pipeVars, browserVars, agentVars,
                   pg_users, sb_users, usr, vision, camera, audio_det, shared, asst>>

\* set_enabled, lines 251-255: one pass of the loop; the call returns when
\* empty() is true
SetterDrains ==
    /\ alert_calls.setter = "draining"
    /\ IF alert_queue = <<>>
       THEN /\ alert_calls' = [alert_calls EXCEPT !.setter = "idle", !.off = ~alert_enabled]
            /\ UNCHANGED alert_queue
       ELSE /\ alert_queue' = Tail(alert_queue)
            /\ UNCHANGED alert_calls
    /\ UNCHANGED <<now, alert_enabled, last_alert_time, alert_pc, play_until, alert_log,
                   nfired, call, voiceVars, pipeVars, browserVars, agentVars,
                   pg_users, sb_users, usr, vision, camera, audio_det, shared, asst>>

RaceTick ==
    /\ now < MaxRaceTicks * AlertTickMs
    /\ now' = now + AlertTickMs
    /\ UNCHANGED <<alertVars, call, voiceVars, pipeVars, browserVars, agentVars, sessionVars>>

NextAlertRace ==
    \/ ObstacleBuilds
    \/ NoiseBuilds
    \/ ProducerPuts
    \/ WorkerGets
    \/ WorkerChecks
    \/ WorkerStarts
    \/ PlayReturns
    \/ \E enabled \in BOOLEAN : SetterStores(enabled)
    \/ SetterDrains
    \/ RaceTick

\* initialize_components, lines 129-139: the detector is created and started
ListeningDetector == start_listening(NewAudioDetector, TRUE)

ComponentsInit ==
    /\ audio_det = ListeningDetector
    /\ shared = NewShared
    /\ alert_calls = NoAlertCalls

SessionInit ==
    /\ UsersInit
    /\ vision = NewVision("basic")
    /\ camera = NoCamera
    /\ ComponentsInit
    /\ AsstInit

(***************************************************************************)
(* calculate_proximity ("Nueva carpeta"/utils/helpers.py).  relative_size  *)
(* and the configured distances are in thousandths of the frame area.      *)
(***************************************************************************)
CLOSE_SIZE == 80
MEDIUM_SIZE == 40

\* Mutant of the comparison: a size equal to the threshold passes it
Exceeds_Inclusive(relative_size, threshold) == relative_size >= threshold

\* "relative_size > 0.08", "relative_size > 0.04"
Exceeds(relative_size, threshold) == relative_size > threshold

\* calculate_proximity(relative_size, frame_width, frame_height): the frame size
\* is accepted and not used
calculate_proximity(relative_size, frame_width, frame_height) ==
    IF Exceeds(relative_size, CLOSE_SIZE) THEN "close"
    ELSE IF Exceeds(relative_size, MEDIUM_SIZE) THEN "medium"
    ELSE "far"

MaxRelativeSize == 200    \* sizes from 0 to 20% of the frame

\* config.py: OBSTACLE_CLOSE_DISTANCE, OBSTACLE_MEDIUM_DISTANCE, OBSTACLE_FAR_DISTANCE
\* as shipped, and two settings an installation may choose through the environment
DistanceSettings ==
    {[close |-> 150, medium |-> 80, far |-> 50], [close |-> 60, medium |-> 30, far |-> 10],
     [close |-> 300, medium |-> 200, far |-> 100]}

FrameSizes == {<<640, 480>>, <<1280, 720>>}

ProximityCalls ==
    {[fn |-> "proximity", relative_size |-> rs, frame |-> f, settings |-> cfg,
      done |-> FALSE, result |-> "none"] :
        rs \in 0..MaxRelativeSize, f \in FrameSizes, cfg \in DistanceSettings}

CallProximity ==
    /\ fn_call.fn = "proximity"
    /\ ~fn_call.done
    /\ fn_call' = [fn_call EXCEPT !.done = TRUE,
                                  !.result = calculate_proximity(fn_call.relative_size,
                                                                 fn_call.frame[1],
                                                                 fn_call.frame[2])]
    /\ UNCHANGED <<now, alertVars, call, voiceVars, pipeVars, browserVars, sessionVars, pg_table,
                   sb_table, sb_unique, db_pc, db_req, db_hist, use_supabase, client, gen>>

(***************************************************************************)
(* DatabaseManager construction (modules/database_manager.py, lines 16-124) *)
(* A configuration cfg: configured (SUPABASE_URL and SUPABASE_KEY are set,  *)
(* config.py line 44), library (the supabase package can be imported),      *)
(* create_client ("ok" | "raises"), database_url ("none" | "local" |        *)
(* "supabase"), connect (what connecting does: "ok", "params_fail" when only *)
(* the connection by URL works, "fail").                                    *)
(***************************************************************************)
\* lines 17-29: SUPABASE_AVAILABLE
SUPABASE_AVAILABLE(cfg) == cfg.configured /\ cfg.library

\* lines 24-29: psycopg2 and urlparse are imported in the else branch only
Psycopg2Imported(cfg) == ~cfg.configured

\* lines 50-60: the client, or None with use_supabase cleared
_initialize_supabase(cfg) ==
    IF cfg.create_client = "ok"
    THEN [use_supabase |-> TRUE, supabase_client |-> "client", connection_pool |-> "none"]
    ELSE [use_supabase |-> FALSE, supabase_client |-> "none", connection_pool |-> "none"]

\* lines 113-124: the fallback; a name that was not imported raises NameError,
\* which is caught like any other exception
FallbackPool(cfg) ==
    IF Psycopg2Imported(cfg) /\ cfg.database_url # "none" /\ cfg.connect # "fail"
    THEN "pool" ELSE "none"

\* lines 64-111: the try block raises for a missing URL, a missing import or a
\* failed connection, and the fallback follows
_initialize_postgres(cfg) ==
    LET raises == \/ cfg.database_url = "none"
                  \/ ~Psycopg2Imported(cfg)
                  \/ cfg.connect = "fail"
                  \/ (cfg.database_url = "supabase" /\ cfg.connect = "params_fail")
    IN  [use_supabase |-> FALSE, supabase_client |-> "none",
         connection_pool |-> IF raises THEN FallbackPool(cfg) ELSE "pool"]

\* __init__, lines 35-46
DatabaseManager(cfg) ==
    IF cfg.configured /\ SUPABASE_AVAILABLE(cfg)
    THEN _initialize_supabase(cfg)
    ELSE _initialize_postgres(cfg)

\* config.py lines 40-41: without URL and key a missing DATABASE_URL gets the
\* local default
DatabaseConfigs ==
    {cfg \in [configured : BOOLEAN, library : BOOLEAN, create_client : {"ok", "raises"},
              database_url : {"none", "local", "supabase"},
              connect : {"ok", "params_fail", "fail"}] :
        cfg.database_url = "none" => cfg.configured}

NoBackend == [use_supabase |-> FALSE, supabase_client |-> "none", connection_pool |-> "none"]

ConstructCalls ==
    {[fn |-> "DatabaseManager", cfg |-> cfg, done |-> FALSE, result |-> NoBackend] :
        cfg \in DatabaseConfigs}

CallConstruct ==
    /\ fn_call.fn = "DatabaseManager" /\ ~fn_call.done
    /\ fn_call' = [fn_call EXCEPT !.done = TRUE, !.result = DatabaseManager(fn_call.cfg)]
    /\ UNCHANGED <<now, alertVars, call, voiceVars, pipeVars, browserVars, sessionVars,
                   pg_table, sb_table, sb_unique, db_pc, db_req, db_hist, use_supabase,
                   client, gen>>

vars == <<now, alertVars, call, voiceVars, pipeVars, browserVars, agentVars, sessionVars>>

AlertInit ==
    /\ alert_enabled = ALERT_ENABLED
    /\ alert_queue = <<>>
    /\ last_alert_time = << >>
    /\ alert_pc = "idle"
    /\ play_until = 0
    /\ alert_log = <<>>
    /\ nfired = 0

Init ==
    /\ now = 0
    /\ AlertInit
    /\ call = NoCall
    /\ VoiceInit
    /\ PipeInit
    /\ BrowserInit
    /\ SessionInit
    /\ AgentInit

AlertObstacleStep ==
    \E d \in TimedObstacles :
        alert_obstacle(d[1], d[2], PipelinePriority(d[1], d[3]), d[3])

AlertNoiseStep == \E n \in TimedNoises : alert_noise(n)

SetEnabledStep == \E b \in BOOLEAN : set_enabled(b)

NextAlert ==
    \/ AlertObstacleStep
    \/ AlertNoiseStep
    \/ _process_alerts
    \/ PlayReturns
    \/ SetEnabledStep
    \/ AlertTick

SpecAlert == Init /\ [][NextAlert]_vars

SpecVoice == Init /\ [][NextVoice]_vars

\* The threads of ObstacleAssistant and the GUI timer; the playback workers
\* that empty the alert and voice queues are those of SpecAlert and SpecVoice
NextPipeline ==
    \/ CaptureStep
    \/ DetectFrame
    \/ ProcessDetection
    \/ PipeAnnounce
    \/ FrameDone
    \/ update_detections
    \/ PipeTick

SpecPipeline == Init /\ [][NextPipeline]_vars

\* time.time() is far more than the detection interval past last_detection_time = 0
InitBrowser ==
    /\ now = DETECTION_INTERVAL
    /\ AlertInit
    /\ call = NoCall
    /\ VoiceInit
    /\ PipeInit
    /\ BrowserInit
    /\ SessionInit
    /\ AgentInit

SpecBrowser == InitBrowser /\ [][NextBrowser]_vars

BaseInit ==
    /\ now = 0
    /\ AlertInit
    /\ call = NoCall
    /\ VoiceInit
    /\ PipeInit
    /\ BrowserInit
    /\ SessionInit

\* one cache-key computation for every list, reordering and move within the cells
InitHash ==
    /\ BaseInit
    /\ DbInit
    /\ LangInit
    /\ fn_call \in HashCalls

NextHash == CallHash

SpecHash == InitHash /\ [][NextHash]_vars

\* the managed table is created by hand, with or without the UNIQUE constraint
InitCache ==
    /\ BaseInit
    /\ pg_table = <<>>
    /\ sb_table = <<>>
    /\ sb_unique \in BOOLEAN
    /\ db_pc = [c \in Callers |-> "idle"]
    /\ db_req = [c \in Callers |-> NoReq]
    /\ db_hist = ZeroHist
    /\ LangInit
    /\ fn_call = NoFn

SpecCacheSeq == InitCache /\ [][NextCacheSeq]_vars

SpecCachePg == Init /\ [][NextCachePg]_vars

SpecCacheSb == InitCache /\ [][NextCacheSb]_vars

InitLanguage ==
    /\ BaseInit
    /\ DbInit
    /\ use_supabase \in BOOLEAN
    /\ client \in {"ok", "none"}
    /\ gen = NoGen
    /\ fn_call = NoFn

SpecLanguage == InitLanguage /\ [][NextLanguage]_vars

\* requests of both detail modes on one cache, the history of the modes kept
InitDetail ==
    /\ now = 0
    /\ AlertInit
    /\ VoiceInit
    /\ PipeInit
    /\ BrowserInit
    /\ SessionInit
    /\ call = NoModes
    /\ DbInit
    /\ use_supabase \in BOOLEAN
    /\ client = "ok"
    /\ gen = NoGen
    /\ fn_call = NoFn

NextDetail == GenerateStep

SpecDetail == InitDetail /\ [][NextDetail]_vars

InitClean ==
    /\ BaseInit
    /\ DbInit
    /\ LangInit
    /\ fn_call \in CleanCalls

NextClean == CallClean

SpecClean == InitClean /\ [][NextClean]_vars

\* sequential create_or_get_user / update_user_preferences calls, each applied
\* to a direct and to a managed backend that start with an empty usuarios table
SpecUsers == Init /\ [][NextUsers]_vars

\* an agent of either variant, as constructed
InitVision ==
    /\ now = 0
    /\ AlertInit
    /\ call = NoCall
    /\ VoiceInit
    /\ PipeInit
    /\ BrowserInit
    /\ UsersInit
    /\ vision \in {NewVision(variant) : variant \in Variants}
    /\ camera = NoCamera
    /\ ComponentsInit
    /\ AsstInit
    /\ AgentInit

SpecVision == InitVision /\ [][NextVision]_vars

\* one calculate_proximity call for every size, frame size and distance setting
InitProximity ==
    /\ BaseInit
    /\ DbInit
    /\ LangInit
    /\ fn_call \in ProximityCalls

NextProximity == CallProximity

SpecProximity == InitProximity /\ [][NextProximity]_vars

\* an assistant as constructed, with or without the GUI and the noise detector
InitAssistant ==
    /\ now = 0
    /\ AlertInit
    /\ call = NoCall
    /\ VoiceInit
    /\ PipeInit
    /\ BrowserInit
    /\ UsersInit
    /\ vision = NewVision("proximity")
    /\ camera = NoCamera
    /\ ComponentsInit
    /\ asst \in {NewAssistant(gui, audio_detector) : gui, audio_detector \in BOOLEAN}
    /\ AgentInit

\* threads that can take a step take it: camera and microphone reads return, and
\* stop() and main() go on; nothing obliges the user to press a key or close a window
AssistantFairness ==
    /\ WF_vars(start)
    /\ WF_vars(\E opened \in BOOLEAN : VideoOpen(opened))
    /\ \A w \in Workers : WF_vars(LoopTest(w)) /\ WF_vars(LoopBody(w))
    /\ WF_vars(\E quit_key \in BOOLEAN : VideoBody(quit_key))
    /\ WF_vars(StopGui) /\ WF_vars(StopAlert) /\ WF_vars(StopNoise)
    /\ WF_vars(StopVoice) /\ WF_vars(StopJoin)
    /\ WF_vars(MainReturns)

SpecAssistant == InitAssistant /\ [][NextAssistant]_vars /\ AssistantFairness

\* the browser session with every start_detection call recorded; the audio worker
\* is left out, so what the handlers queue stays in the queue
NoStart == [op |-> "none", n |-> 0, outcome |-> "none", count_before |-> 0,
            camera_before |-> "none", before |-> "none"]

InitStart ==
    /\ now = DETECTION_INTERVAL
    /\ AlertInit
    /\ call = NoStart
    /\ VoiceInit
    /\ PipeInit
    /\ BrowserInit
    /\ SessionInit
    /\ AgentInit

\* refresh cycles between the calls: a frame is read and described
StartCycle ==
    \E found \in BOOLEAN :
        process_video_and_detection(TRUE, found, FALSE, "Hay una silla al frente.")

NextStart ==
    \/ StartCall
    \/ stop_detection
    \/ StartCycle
    \/ BrowserTick

SpecStart == InitStart /\ [][NextStart]_vars

\* the detection loop and the capture loop of one assistant, each step of either
\* interleaved with the steps of the other
SpecShared == Init /\ [][NextShared]_vars

\* producers, the playback worker and set_enabled/stop, statement by statement
SpecAlertRace == Init /\ [][NextAlertRace]_vars

\* one detect_noise call for every chunk of the model
InitNoise ==
    /\ BaseInit
    /\ DbInit
    /\ LangInit
    /\ fn_call \in NoiseCalls

NextNoise == CallNoise

SpecNoise == InitNoise /\ [][NextNoise]_vars

\* one construction for every configuration
InitBackend ==
    /\ BaseInit
    /\ DbInit
    /\ LangInit
    /\ fn_call \in ConstructCalls

NextBackend == CallConstruct

SpecBackend == InitBackend /\ [][NextBackend]_vars

SpecAudio == Init /\ [][NextAudio]_vars

(***************************************************************************)
(* One alert_obstacle call on a fresh ObstacleAlert, for every argument    *)
(* combination, with alerts enabled or disabled (set_enabled).             *)
(***************************************************************************)
AlertObstacleCalls ==
    [op : {"alert_obstacle"}, proximity : Proximities, obstacle_type : ObstacleTypes,
     priority : Priorities, is_center : BOOLEAN, done : {FALSE}]

InitAlertCall ==
    /\ now = 0
    /\ alert_enabled \in BOOLEAN
    /\ alert_queue = <<>>
    /\ last_alert_time = << >>
    /\ alert_pc = "idle"
    /\ play_until = 0
    /\ alert_log = <<>>
    /\ nfired = 0
    /\ call \in AlertObstacleCalls
    /\ VoiceInit
    /\ PipeInit
    /\ BrowserInit
    /\ SessionInit
    /\ AgentInit

CallAlertObstacle ==
    /\ call.op = "alert_obstacle"
    /\ ~call.done
    /\ alert_queue' = AlertObstaclePut(alert_queue, alert_enabled, call.proximity,
                                       call.obstacle_type, call.priority,
                                       call.is_center, now)
    /\ call' = [call EXCEPT !.done = TRUE]
    /\ UNCHANGED <<now, alert_enabled, last_alert_time, alert_pc, play_until,
                   alert_log, nfired, voiceVars, pipeVars,
                   browserVars, agentVars, sessionVars>>

NextAlertCall == CallAlertObstacle

SpecAlertCall == InitAlertCall /\ [][NextAlertCall]_vars

(***************************************************************************)
(* Claims about the Obstacle Alert System.                                 *)
(***************************************************************************)
AlertLogIdx == 1..Len(alert_log)
IsPlayed(i) == alert_log[i].outcome = "played"
SameKey(i, j) == alert_log[i].key = alert_log[j].key

\* Two tones of one debounce key never start less than the debounce interval apart
PlaybackSpacing ==
    \A i, j \in AlertLogIdx :
        (i < j /\ SameKey(i, j) /\ IsPlayed(i) /\ IsPlayed(j))
            => alert_log[j].taken - alert_log[i].taken >= ALERT_DEBOUNCE_TIME

\* C1 as stated: two tones with the same debounce key never start playback less
\* than the debounce interval apart, and two identical obstacle alerts fired
\* 0.1 s apart result in exactly one tone (they are never both played).
C1_Orig ==
    /\ PlaybackSpacing
    /\ \A i, j \in AlertLogIdx :
        (i < j /\ SameKey(i, j) /\ alert_log[i].key[1] = "obstacle"
               /\ alert_log[j].fired - alert_log[i].fired = 100)
            => ~(IsPlayed(i) /\ IsPlayed(j))

\* C1 as amended: two tones with the same debounce key never start playback less
\* than the debounce interval apart; an alert taken from the queue less than the
\* debounce interval after a tone of its key started is not played, so two
\* identical obstacle alerts fired 0.1 s apart give exactly one tone whenever the
\* second is taken within the interval of the first's start.
C1_DebounceAtPlayback ==
    /\ PlaybackSpacing
    /\ \A i, j \in AlertLogIdx :
        (i < j /\ SameKey(i, j) /\ IsPlayed(i)
               /\ alert_log[j].taken - alert_log[i].taken < ALERT_DEBOUNCE_TIME)
            => alert_log[j].outcome = "debounced" \/ alert_log[j].outcome = "disabled"

\* C1 witness: two identical obstacle alerts fired 0.1 s apart, the first played
\* and the second dropped by the debounce
C1_Witness ==
    \E i, j \in AlertLogIdx :
        /\ i < j /\ SameKey(i, j) /\ alert_log[i].key[1] = "obstacle"
        /\ alert_log[j].fired - alert_log[i].fired = 100
        /\ IsPlayed(i) /\ alert_log[j].outcome = "debounced"

\* j is the next message of i's key that the worker took after i
NextOfKey(i, j) ==
    /\ i < j /\ SameKey(i, j)
    /\ \A k \in AlertLogIdx : (i < k /\ k < j) => ~SameKey(i, k)

\* C2 as stated: with alerts enabled, two obstacle alerts of one key fired at
\* least the debounce interval apart both reach playback, whatever else is
\* pending and however long earlier tones take.
C2_Orig ==
    \A i, j \in AlertLogIdx :
        (/\ NextOfKey(i, j) /\ alert_log[i].key[1] = "obstacle"
         /\ alert_log[j].fired - alert_log[i].fired >= ALERT_DEBOUNCE_TIME
         /\ IsPlayed(i) /\ alert_log[j].outcome # "disabled")
            => IsPlayed(j)

\* C2 as amended: with alerts enabled, an alert is played whenever it is taken
\* from the queue at least the debounce interval after the last tone of its key
\* started (or no tone of its key was played before); so two alerts fired 0.4 s
\* apart both play when the first is played without delay.
C2_PlayedWhenSpaced ==
    \A j \in AlertLogIdx :
        (/\ alert_log[j].outcome # "disabled"
         /\ \A i \in AlertLogIdx :
               (i < j /\ SameKey(i, j) /\ IsPlayed(i))
                   => alert_log[j].taken - alert_log[i].taken >= ALERT_DEBOUNCE_TIME)
            => IsPlayed(j)

\* C2 witness: two obstacle alerts of one key fired at least the debounce
\* interval apart, both played
C2_Witness ==
    \E i, j \in AlertLogIdx :
        /\ i < j /\ SameKey(i, j) /\ alert_log[i].key[1] = "obstacle"
        /\ alert_log[j].fired - alert_log[i].fired >= ALERT_DEBOUNCE_TIME
        /\ IsPlayed(i) /\ IsPlayed(j)

CallDone == call.op = "alert_obstacle" /\ call.done

\* What C3 says about the number of messages of one alert_obstacle call
C3_Count ==
    CallDone =>
        /\ ~alert_enabled => alert_queue = <<>>
        /\ (call.proximity \in {"far", "medium"} /\ ~call.is_center)
               => alert_queue = <<>>
        /\ (alert_enabled /\ (call.proximity = "close" \/ call.is_center))
               => Len(alert_queue) = 1

FarCenterQueued ==
    CallDone /\ alert_enabled /\ call.proximity = "far" /\ call.is_center

\* C3 as stated: no message for a far or medium object outside the centre, one
\* message for a close or centred object, none when disabled; a far, centred
\* object gets the configured far frequency with half the base duration.
C3_Orig ==
    /\ C3_Count
    /\ FarCenterQueued =>
          /\ alert_queue[1].frequency = ALERT_FAR_FREQUENCY
          /\ 2 * alert_queue[1].duration = ALERT_DURATION

\* C3 as amended: as stated, except that the far frequency of a far, centred
\* object is scaled by the obstacle type like every other: x1.1 (truncated) for
\* a person, x0.9 for car/bus/truck/motorcycle/bicycle, unscaled otherwise.
C3_AlertObstacle ==
    /\ C3_Count
    /\ FarCenterQueued =>
          /\ 2 * alert_queue[1].duration = ALERT_DURATION
          /\ call.obstacle_type = "person"
                => alert_queue[1].frequency = (ALERT_FAR_FREQUENCY * 11) \div 10
          /\ call.obstacle_type = "car"
                => alert_queue[1].frequency = (ALERT_FAR_FREQUENCY * 9) \div 10
          /\ call.obstacle_type \notin {"person", "car"}
                => alert_queue[1].frequency = ALERT_FAR_FREQUENCY

\* C3 witness: a far, centred person has produced its one message
C3_Witness ==
    /\ FarCenterQueued /\ call.obstacle_type = "person"
    /\ Len(alert_queue) = 1

(***************************************************************************)
(* Voice Announcer claims.                                                 *)
(***************************************************************************)
\* The last announce_close_object call got past the enabled and engine tests
AnnounceReachedDebounce ==
    /\ ann_result.op = "announce"
    /\ ann_result.outcome \in {"debounced", "accepted"}

\* Some other name was accepted less than the debounce interval before the call
OtherNameRecent ==
    \E n \in DOMAIN last_announcement_time :
        /\ n # ann_result.name
        /\ ann_result.t - last_announcement_time[n] < ANNOUNCEMENT_DEBOUNCE

\* C8: with the announcer enabled and its engine available, a call of
\* announce_close_object for a name is suppressed if and only if that same name
\* was last accepted less than 2.0 s before the call; how recently any other
\* name was accepted plays no part.
C8_DebouncePerName ==
    AnnounceReachedDebounce =>
        (ann_result.outcome = "debounced"
            <=> (ann_result.prev >= 0
                 /\ ann_result.t - ann_result.prev < ANNOUNCEMENT_DEBOUNCE))

C8_Witness ==
    /\ AnnounceReachedDebounce
    /\ ann_result.outcome = "accepted"
    /\ ann_result.prev = -1
    /\ OtherNameRecent
    /\ ann_result.t > 0

AnnounceAccepted ==
    /\ ann_result.op = "announce"
    /\ ann_result.outcome = "accepted"

C4_Orig ==
    cycle.ran =>
        /\ (cycle.detected /\ cycle.prev_pass >= 0) =>
               cycle.t - cycle.prev_pass >= DETECTION_INTERVAL
        /\ cycle.ret => cycle.rendered

\* C5 (as stated): a generated description is spoken iff it differs from the
\* last spoken one; a spoken description updates the last-spoken text and is
\* saved exactly once in the cycle; a cycle that spoke nothing saves nothing.
\* "Spoken" is the description entering the Audio Manager's queue.
C5_Orig ==
    cycle.ran =>
        /\ cycle.generated => (cycle.spoke <=> cycle.differs)
        /\ cycle.spoke => (cycle.last_updated /\ cycle.saves = 1)
        /\ ~cycle.spoke => cycle.saves = 0

\* C5 (amended): a generated description is passed to the Audio Manager's
\* speak iff it differs from the last one passed; such a cycle updates the
\* last-spoken text and calls save_detection exactly once, any other cycle
\* saves nothing; the description enters the audio queue iff it was passed to
\* speak and is not empty.
C5_SpeakAndSave ==
    cycle.ran =>
        /\ cycle.generated => (cycle.speak_called <=> cycle.differs)
        /\ cycle.speak_called => (cycle.last_updated /\ cycle.saves = 1)
        /\ ~cycle.speak_called => cycle.saves = 0
        /\ cycle.spoke <=> (cycle.speak_called /\ cycle.description # "")

C5_Witness ==
    /\ cycle.ran
    /\ cycle.speak_called
    /\ cycle.spoke
    /\ cycle.saves = 1
    /\ last_description = cycle.description
    /\ cycle.prev_pass >= 0

(***************************************************************************)
(* Standalone pipeline claims.                                             *)
(***************************************************************************)
\* C6 (as stated): once three frames were offered to the frame queue and none
\* was taken, the queue holds exactly the second and the third frame, in order.
C6_Orig ==
    (frames_offered = 3 /\ frames_taken = 0) =>
        /\ Len(frame_queue) = FrameQueueMaxsize
        /\ frame_queue[1].id = 2
        /\ frame_queue[2].id = 3

HasFiniteCapacity(q, maxsize) == maxsize > 0 /\ Len(q) <= maxsize

\* C7 (as stated): the alert, voice, audio-message, frame and GUI detection
\* queues each have a fixed finite capacity that their length never exceeds.
C7_Orig ==
    /\ HasFiniteCapacity(alert_queue, AlertQueueMaxsize)
    /\ HasFiniteCapacity(voice_queue, VoiceQueueMaxsize)
    /\ HasFiniteCapacity(audio_queue, AUDIO_QUEUE_MAX_SIZE)
    /\ HasFiniteCapacity(frame_queue, FrameQueueMaxsize)
    /\ HasFiniteCapacity(detection_queue, DetectionQueueMaxsize)

DefaultConfiguration == alert_enabled /\ voice_enabled /\ engine

SingleFrameProcessed == frames_taken = 1 /\ det_pc = "idle"

\* C10: every detection of a processed frame yields at most one Alert Message,
\* one voice message and one GUI entry; with alerts enabled and the voice
\* engine ready, a single frame holding one close, centered person yields
\* exactly one Alert Message of 990 Hz and 0.15 s, exactly one voice message
\* "¡Atención! Hay una persona muy cerca de ti" and exactly one GUI entry.
C10_OneFrame ==
    /\ \A i \in DOMAIN frame_yield :
          /\ frame_yield[i].gui <= 1
          /\ frame_yield[i].alerts <= 1
          /\ frame_yield[i].voices <= 1
    /\ (SingleFrameProcessed /\ frame = PersonScene /\ DefaultConfiguration) =>
          frame_yield = << [gui |-> 1, alerts |-> 1, frequency |-> 990,
                            duration |-> 150, calls |-> 1, voices |-> 1,
                            text |-> "¡Atención! Hay una persona muy cerca de ti"] >>

C10_Witness ==
    /\ SingleFrameProcessed
    /\ frame = PersonScene
    /\ DefaultConfiguration
    /\ frame_yield[1].alerts = 1
    /\ frame_yield[1].voices = 1
    /\ frame_yield[1].gui = 1

\* A detection pass that found no detections and no noise
EmptyPass == cycle.ran /\ cycle.detected /\ ~cycle.found

\* C11 (as stated): after a detection pass with no detections and no noise the
\* fixed "no objects detected" sentence is the last spoken description (spoken
\* in this pass or, unchanged, in an earlier one), and a record is saved only
\* when the pass spoke.
C11_Orig ==
    EmptyPass =>
        /\ last_description = NoObjectsSentence
        /\ cycle.saves = (IF cycle.spoke THEN 1 ELSE 0)

\* C11 (amended): a detection pass with no detections and no noise does not
\* call the description generator, passes nothing to speak, queues no speech,
\* saves no record and only sets last_detection_time to the time of the pass.
C11_EmptyPassSilent ==
    EmptyPass =>
        /\ ~cycle.generated
        /\ ~cycle.speak_called
        /\ ~cycle.spoke
        /\ cycle.saves = 0
        /\ last_detection_time = cycle.t

C11_Witness ==
    /\ EmptyPass
    /\ cycle.prev_pass >= 0
    /\ cycle.t - cycle.prev_pass >= DETECTION_INTERVAL
    /\ last_description # NoObjectsSentence

(***************************************************************************)
(* Audio Manager claims.                                                   *)
(***************************************************************************)
SpeakReturned == sp_call.op = "speak" /\ sp_pc = "idle"

MessagePending == audio_queue # <<>> \/ audio_pc \in {"got", "playing"}

\* C13 (as stated): is_busy is true at every instant between the queueing of a
\* message and the end of its playback.
C13_Orig == MessagePending => is_busy

\* the detections of a list, with multiplicity
BagOf(s) ==
    [e \in {s[i] : i \in 1..Len(s)} |-> Cardinality({i \in 1..Len(s) : s[i] = e})]

\* C15: the cache key does not depend on the order of the detections, and two lists
\* with the same names at the same rounded centre/100 positions get the same key
C15_KeyOrderIndependent ==
    fn_call.fn = "hash" /\ fn_call.done
        => LET b == Reordered(fn_call.a, fn_call.p, fn_call.moved)
           IN  /\ BagOf([i \in 1..Len(b) |-> Normalized(b[i])])
                    = BagOf([i \in 1..Len(fn_call.a) |-> Normalized(fn_call.a[i])])
               /\ fn_call.ka = fn_call.kb

C15_Witness ==
    /\ fn_call.fn = "hash" /\ fn_call.done
    /\ Len(fn_call.a) = MaxDetections
    /\ fn_call.moved
    /\ LET b == Reordered(fn_call.a, fn_call.p, fn_call.moved)
       IN  /\ \A i \in 1..Len(b) : b[i] # fn_call.a[i]
           /\ BagOf(b) # BagOf(fn_call.a)
           /\ fn_call.a[1].name # fn_call.a[2].name
    /\ fn_call.ka = fn_call.kb

\* what a table holds for a hash after the committed calls of the history: no row before
\* the first cache_description; then one row, the latest text, and a usage counter of
\* 1 + re-insertions + hits
AsCounted(table, h) ==
    IF db_hist.caches[h] = 0 THEN Select(table, h) = <<>>
    ELSE /\ Len(Select(table, h)) = 1
         /\ Select(table, h)[1].descripcion = db_hist.latest[h]
         /\ Select(table, h)[1].uso_count = 1 + (db_hist.caches[h] - 1) + db_hist.hits[h]

\* the entries of a table: hash, text and usage counter of every row
Entries(table) ==
    [i \in 1..Len(table) |->
        [hash_objetos |-> table[i].hash_objetos, descripcion |-> table[i].descripcion,
         uso_count |-> table[i].uso_count]]

C17_DirectUpsertSafe ==
    \A h \in DbHashes :
        /\ Len(Select(pg_table, h)) <= 1
        /\ db_hist.caches[h] = 0 => Select(pg_table, h) = <<>>
        /\ db_hist.caches[h] > 0 =>
              /\ Select(pg_table, h) # <<>>
              /\ Select(pg_table, h)[1].uso_count = db_hist.caches[h] + db_hist.hits[h]
              /\ Select(pg_table, h)[1].descripcion = db_hist.latest[h]

C17_Witness ==
    \E h \in DbHashes :
        /\ db_hist.peak = MaxCallers
        /\ db_hist.started = 3
        /\ db_hist.caches[h] = 3
        /\ \A c \in Callers : db_pc[c] = "idle"
        /\ Len(Select(pg_table, h)) = 1
        /\ Select(pg_table, h)[1].uso_count = 3

\* C18: on the managed backend the upsert reads and then writes; whenever a call writes
\* after the rows it read have changed (two calls read before either wrote), an
\* increment is lost or an insert is made for a hash that already has a row; without
\* such a write the entry is as counted
C18_ManagedUpsertRace ==
    \A h \in DbHashes :
        /\ db_hist.stale[h] = 0 => AsCounted(sb_table, h)
        /\ db_hist.stale[h] > 0 =>
              \/ db_hist.dups[h] > 0
              \/ /\ Select(sb_table, h) # <<>>
                 /\ Select(sb_table, h)[1].uso_count
                       < db_hist.caches[h] + db_hist.hits[h]

C18_Witness ==
    \E h \in DbHashes :
        /\ db_hist.stale[h] = 1
        /\ db_hist.dups[h] = 0
        /\ db_hist.caches[h] = 3
        /\ \A c \in Callers : db_pc[c] = "idle"
        /\ Len(Select(sb_table, h)) = 1
        /\ Select(sb_table, h)[1].uso_count = 2

\* C14: with caching enabled and an entry for the key in the cache (and the lookup
\* working), generate_description returns the text of the entry and does not call the
\* model; with no detections it returns the fixed sentence and does not call the model
C14_Orig ==
    gen.ran =>
        /\ gen.caching /\ gen.lookup_ok /\ gen.entry # <<>>
              => gen.returned = gen.entry[1].descripcion /\ ~gen.model_called
        /\ gen.detections = <<>>
              => gen.returned = NoObjectsSentence /\ ~gen.model_called

\* the call of the claim: detections given, and no client or a call that raised
FailedGeneration ==
    /\ gen.ran
    /\ gen.detections # <<>>
    /\ \/ gen.client = "none"
       \/ gen.model_called /\ gen.outcome # "response"

\* hash and text of every row
StoredTexts(table) ==
    [i \in 1..Len(table) |->
        [hash_objetos |-> table[i].hash_objetos, descripcion |-> table[i].descripcion]]

\* C19 as stated: a failed generation returns the formatter's text, does not raise and
\* leaves the cache as it was
C19_Orig ==
    FailedGeneration =>
        /\ gen.returned = format_spatial_description(gen.detections)
        /\ ~gen.raised
        /\ gen.table_after = gen.table_before

\* C19: a failed generation for which the cache gave no text returns the formatter's
\* text, does not raise and stores no description; the cache changes only when the
\* lookup found an entry with an empty text, whose usage counter it has incremented
C19_FallbackOnFailure ==
    FailedGeneration /\ ~gen.hit =>
        /\ gen.returned = format_spatial_description(gen.detections)
        /\ ~gen.raised
        /\ ~gen.cache_description_called
        /\ StoredTexts(gen.table_after) = StoredTexts(gen.table_before)
        /\ gen.table_after # gen.table_before
              => /\ gen.caching /\ gen.lookup_ok
                 /\ gen.entry # <<>>
                 /\ gen.entry[1].descripcion = ""

C19_Witness ==
    /\ FailedGeneration /\ ~gen.hit
    /\ gen.model_called /\ gen.outcome = "ConnectionError"
    /\ gen.caching
    /\ gen.returned = "person a tu izquierda, abajo (confianza: 65%). chair frente a ti, a la altura."
    /\ gen.entry # <<>>
    /\ gen.table_after # gen.table_before

\* 1-based place of the last end mark among the first n characters, 0 when none
LastMark(s, n) ==
    LET where == {i \in 1..Len(s) : i <= n /\ s[i] \in EndMarks}
    IN  IF where = {} THEN 0 ELSE Largest(where)

\* 1-based place of the last blank among the first n characters, 0 when none
LastBlank(s, n) ==
    LET where == {i \in 1..Len(s) : i <= n /\ s[i] = " "}
    IN  IF where = {} THEN 0 ELSE Largest(where)

\* C20 as stated: for a text longer than M, if the last end mark within the first M
\* characters lies beyond 70% of M the result is the prefix ending at that mark;
\* otherwise it is the first M characters cut back to the last whole word, with a
\* period appended
C20_Orig ==
    fn_call.fn = "clean" /\ fn_call.done /\ Len(fn_call.text) > MAX_DESCRIPTION_LENGTH
        => LET t == fn_call.text
               M == MAX_DESCRIPTION_LENGTH
               mark == LastMark(t, M)
           IN  IF mark * 10 > M * 7 THEN fn_call.result = SubSeq(t, 1, mark)
               ELSE LastBlank(t, M) > 0
                       => fn_call.result = SubSeq(t, 1, LastBlank(t, M) - 1) \o <<".">>

\* C20: the rule applies to the text after its runs of blanks have been collapsed; the
\* prefix ending at the last end mark is taken when the 0-based index of that mark
\* is greater than 70% of M; otherwise the result is what precedes the last blank of
\* the first M characters (all M of them when they hold no blank) and a period; a
\* collapsed text of at most M characters is kept, with a period if it ends in no mark
C20_Truncation ==
    fn_call.fn = "clean" /\ fn_call.done
        => LET t == JoinSplit(fn_call.text)
               M == MAX_DESCRIPTION_LENGTH
               mark == LastMark(t, M)
               blank == LastBlank(t, M)
           IN  IF Len(t) > M
               THEN IF (mark - 1) * 10 > M * 7 THEN fn_call.result = SubSeq(t, 1, mark)
                    ELSE IF blank > 0
                    THEN fn_call.result = SubSeq(t, 1, blank - 1) \o <<".">>
                    ELSE fn_call.result = SubSeq(t, 1, M) \o <<".">>
               ELSE IF t[Len(t)] \in EndMarks THEN fn_call.result = t
               ELSE fn_call.result = t \o <<".">>

C20_Witness ==
    /\ fn_call.fn = "clean" /\ fn_call.done
    /\ Len(fn_call.text) = MAX_DESCRIPTION_LENGTH + Extra
    /\ fn_call.text[MAX_DESCRIPTION_LENGTH - Extra] = "."
    /\ \A i \in 1..Len(fn_call.text) : fn_call.text[i] # " "
    /\ fn_call.result = SubSeq(fn_call.text, 1, MAX_DESCRIPTION_LENGTH - Extra)

(***************************************************************************)
(* User profiles                                                           *)
(***************************************************************************)
\* the positions of the rows of a usuarios table that carry a name
RowsNamed(table, nombre) == {i \in 1..Len(table) : table[i].nombre = nombre}

\* what one backend did in the create_or_get_user call just made.  outcome is
\* "ok", "error" (a request fails) or "nodata" (the response to the insert carries
\* no row, which the managed backend answers with the empty mapping)
CreatedOrGot(before, after, nombre, outcome, value) ==
    LET existed == RowsNamed(before, nombre) # {}
        worked == outcome = "ok" \/ (outcome = "nodata" /\ existed)
    IN  /\ Cardinality(RowsNamed(after, nombre)) <= 1
        /\ existed => after = before
        /\ worked => /\ \E i \in RowsNamed(after, nombre) : value = after[i]
                     /\ ~existed => /\ value.velocidad_habla = 150
                                    /\ value.volumen = 80
                                    /\ value.modo_detallado = FALSE
        /\ ~worked => value = EmptyMapping

\* C21: create_or_get_user is idempotent on both backends: a table never holds two
\* profiles of one name; a call that works returns the one profile of that name, the
\* existing one when there is one (the table is then left as it was), else a new one
\* with rate 150, volume 0.8 and detailed mode off; a call whose requests fail
\* returns the empty mapping; no call raises
C21_CreateOrGetIdempotent ==
    /\ \A nombre \in UserNames :
          /\ Cardinality(RowsNamed(pg_users, nombre)) <= 1
          /\ Cardinality(RowsNamed(sb_users, nombre)) <= 1
    /\ usr.op = "create_or_get_user"
          => /\ ~usr.raised
             /\ CreatedOrGot(usr.pg_before, pg_users, usr.nombre,
                             IF usr.ok THEN "ok" ELSE "error", usr.pg_value)
             /\ CreatedOrGot(usr.sb_before, sb_users, usr.nombre, usr.outcome,
                             usr.sb_value)

\* the third call in a row for one name: both backends hold one profile and return it
C21_Witness ==
    /\ usr.op = "create_or_get_user" /\ usr.n = MaxUserCalls
    /\ usr.ok /\ usr.outcome = "ok"
    /\ Len(pg_users) = 1 /\ Len(sb_users) = 1
    /\ usr.pg_before = pg_users /\ usr.sb_before = sb_users
    /\ usr.pg_value = pg_users[1] /\ usr.sb_value = sb_users[1]
    /\ usr.pg_value.nombre = usr.nombre /\ usr.sb_value.nombre = usr.nombre

\* the table a backend should hold after an update that reports success: the
\* addressed profile with the supplied recognized fields replaced, the update
\* timestamp aside
FieldsUpdated(before, after, usuario_id, preferencias) ==
    /\ Len(after) = Len(before)
    /\ \A i \in 1..Len(before) :
          LET expected ==
                  IF before[i].id = usuario_id
                  THEN WithPreferences(before[i], preferencias, after[i].preferencias_tts)
                  ELSE before[i]
          IN  /\ [after[i] EXCEPT !.updated_at = 0] = [expected EXCEPT !.updated_at = 0]
              /\ before[i].id = usuario_id /\ "preferencias_tts" \in preferencias.keys
                    => after[i].preferencias_tts.text = preferencias.tts_text

\* C22 as stated: an update changes exactly the supplied recognized fields of the
\* addressed profile and returns true exactly when a recognized field was updated,
\* false with the table untouched otherwise, with the same result on both backends
C22_Orig ==
    usr.op = "update_user_preferences"
        => LET p == usr.preferencias
               supplied == p.keys \cap RecognizedKeys
               addressed(before) == \E i \in 1..Len(before) : before[i].id = usr.usuario_id
               done(before) == usr.ok /\ supplied # {} /\ addressed(before)
           IN  /\ usr.pg_value = done(usr.pg_before)
               /\ usr.sb_value = done(usr.sb_before)
               /\ usr.pg_value => FieldsUpdated(usr.pg_before, pg_users, usr.usuario_id, p)
               /\ usr.sb_value => FieldsUpdated(usr.sb_before, sb_users, usr.usuario_id, p)
               /\ ~usr.pg_value => pg_users = usr.pg_before
               /\ ~usr.sb_value => sb_users = usr.sb_before

\* C22, the failing case: a dict for preferencias_tts together with a volume, for a
\* profile both backends hold: the direct backend reports failure and keeps the old
\* volume, the managed backend reports success and stores both fields
C22_DictRejectedByDirectBackend ==
    ~ /\ usr.op = "update_user_preferences" /\ usr.ok
      /\ usr.preferencias.keys = {"preferencias_tts", "volumen"}
      /\ usr.preferencias.tts_type = "dict"
      /\ \E i \in 1..Len(pg_users) :
            /\ pg_users[i].id = usr.usuario_id
            /\ pg_users[i].volumen = DEFAULT_VOLUMEN
      /\ \E i \in 1..Len(sb_users) :
            /\ sb_users[i].id = usr.usuario_id
            /\ sb_users[i].volumen = usr.preferencias.volumen
      /\ usr.pg_value = FALSE /\ usr.sb_value = TRUE

(***************************************************************************)
(* Vision agent                                                            *)
(***************************************************************************)
\* C23: since the construction or the last reset_frame_count the counter equals the
\* number of detect_objects calls, forced or not; an unforced call runs inference
\* exactly when the incremented counter is a multiple of process_every_n_frames
\* and returns the empty list otherwise; a forced call always runs inference
C23_FrameSkipping ==
    /\ vision.frame_count = vision.calls
    /\ vision.calls > 0
          => /\ ~vision.force
                   => /\ vision.ran
                         <=> vision.frame_count % ProcessEveryN(vision.variant) = 0
                      /\ ~vision.ran => vision.out = <<>>
             /\ vision.force => vision.ran

\* a forced call on a count that is no multiple of N, after an unforced call that
\* was skipped: the counter has advanced on both
C23_Witness ==
    /\ vision.calls = 3 /\ vision.frame_count = 3
    /\ vision.force /\ vision.ran
    /\ vision.frame_count % vision.process_every_n_frames # 0
    /\ vision.out # <<>>

\* the rank the claim gives: d outranks other
Outranks(variant, d, other) ==
    IF variant = "basic" THEN d.confidence > other.confidence
    ELSE LET rank(x) == CASE x.proximity = "close" -> 1
                          [] x.proximity = "medium" -> 2
                          [] OTHER -> 3
         IN  \/ d.is_center /\ ~other.is_center
             \/ /\ d.is_center = other.is_center
                /\ rank(d) < rank(other)
             \/ /\ d.is_center = other.is_center
                /\ rank(d) = rank(other)
                /\ d.confidence > other.confidence

Range(s) == {s[i] : i \in 1..Len(s)}

\* C24: a call that ran inference returns at most max_detections entries, all of
\* them relevant detections of the frame, none outranked by a relevant detection
\* that was left out, and in rank order: centre zone first, then close before
\* medium before far, then confidence non-increasing in the proximity-aware
\* variant; confidence non-increasing in the basic variant
C24_ResultOrdering ==
    vision.ran /\ vision.inference = "ok"
        => LET out == vision.out
               relevant == Range(Relevant(vision.variant, vision.raw))
           IN  /\ Len(out) <= 10
               /\ Len(out) = IF Cardinality(relevant) < 10 THEN Cardinality(relevant) ELSE 10
               /\ Range(out) \subseteq relevant
               /\ Cardinality(Range(out)) = Len(out)
               /\ \A d \in relevant \ Range(out) :
                     \A r \in Range(out) : ~Outranks(vision.variant, d, r)
               /\ \A i, j \in 1..Len(out) :
                     i < j => ~Outranks(vision.variant, out[j], out[i])

\* a frame with more than ten relevant boxes that did not come in rank order
C24_Witness ==
    /\ vision.ran /\ vision.inference = "ok" /\ vision.variant = "proximity"
    /\ Len(Relevant(vision.variant, vision.raw)) > 10
    /\ Len(vision.out) = 10
    /\ vision.out # Take(Relevant(vision.variant, vision.raw), 10)
    /\ vision.out[1].is_center /\ ~vision.out[10].is_center
    /\ \E i \in 1..9 : vision.out[i].confidence < vision.out[i + 1].confidence

\* C25: the proximity is close for a relative size above 8% of the frame, medium
\* above 4% and up to 8%, far up to 4% (8% itself is medium, 4% itself is far),
\* whatever the configured distances and the frame size are
C25_ProximityThresholds ==
    fn_call.fn = "proximity" /\ fn_call.done
        => LET rs == fn_call.relative_size
           IN  /\ fn_call.result = "close" <=> rs > 80
               /\ fn_call.result = "medium" <=> (rs > 40 /\ rs <= 80)
               /\ fn_call.result = "far" <=> rs <= 40

\* a size of exactly 8% under settings whose close distance is below it
C25_Witness ==
    /\ fn_call.fn = "proximity" /\ fn_call.done
    /\ fn_call.relative_size = 80
    /\ fn_call.settings.close < 80
    /\ fn_call.result = "medium"

(***************************************************************************)
(* Standalone assistant: stopping                                          *)
(***************************************************************************)
LoopsEnded == \A w \in Workers : asst.thread[w] \in {"none", "done"}

ComponentsStopped ==
    /\ ~alert_enabled
    /\ ~asst.is_listening
    /\ ~voice_enabled

\* C26 as stated: once the quit key has been pressed the three loops end and the
\* alert system, the noise detector and the voice announcer are stopped
C26_Orig == asst.quit ~> (LoopsEnded /\ ComponentsStopped)

\* C26, the failing case: with the GUI, the loops have ended after the quit key, the
\* window has been closed, the stop() of main() has returned at its guard and
\* main() has returned; the alert system is enabled and the microphone stream open
C26_QuitLeavesComponentsRunning ==
    ~ /\ asst.quit /\ asst.gui = "closed" /\ asst.main = "finished" /\ LoopsEnded
      /\ asst.stops > 0 /\ ~asst.stopped
      /\ alert_enabled /\ asst.is_listening

\* C27: a stop() that finds the flag set clears it, stops the GUI, the alert
\* system, the noise detector and the voice announcer and returns, whether or not
\* the threads have ended; the three loops end; a stop() after it changes nothing
C27_StopTerminates ==
    /\ [](asst.stop_pc # "idle" => ~asst.running)
    /\ [](asst.stopped => /\ asst.gui \in {"none", "stopped"}
                          /\ ComponentsStopped)
    /\ (asst.stop_pc = "gui") ~> (asst.stop_pc = "returned" /\ asst.stopped)
    /\ (asst.stop_pc = "gui") ~> LoopsEnded
    /\ [][asst.stop_pc = "returned" /\ asst'.stops > asst.stops
             => /\ asst' = [asst EXCEPT !.stops = @ + 1]
                /\ UNCHANGED <<alertVars, voiceVars>>]_vars

\* a second stop() after one that stopped a running assistant with a GUI and a
\* noise detector
C27_Witness ==
    /\ asst.stops = 2 /\ asst.stopped /\ asst.stop_pc = "returned"
    /\ asst.gui = "stopped" /\ asst.audio_detector
    /\ ~asst.running /\ LoopsEnded /\ ComponentsStopped
    /\ ~asst.quit

(***************************************************************************)
(* Browser assistant: start of detection                                   *)
(***************************************************************************)
\* C28: a start_detection call in which the camera opens (with either backend) and
\* delivers a frame (at the first or second read) leaves detection active, a camera
\* handle held, the agent's frame counter at 0 and the "detection started"
\* announcement alone in the speech queue; any other call leaves detection
\* inactive, no camera handle, and the error message alone in the speech queue,
\* so that start_detection can be called again
C28_StartDetection ==
    [][call' # call
         => IF call'.outcome \in {"dshow", "default", "second_read"}
            THEN /\ detection_active'
                 /\ camera' = "open"
                 /\ vision'.frame_count = 0
                 /\ audio_queue' = <<"Detección iniciada. Analizando el entorno.">>
            ELSE /\ ~detection_active'
                 /\ camera' = "none"
                 /\ audio_queue' \in
                      {<<"Error al iniciar la cámara: No se pudo abrir la cámara">>,
                       <<"Error al iniciar la cámara: La cámara no puede capturar frames. Verifica que no esté siendo usada por otra aplicación.">>}
                 /\ vision' = vision]_vars

\* a start that works with the default backend, right after one that failed, in a
\* session whose agent had counted frames
C28_Witness ==
    /\ call.op = "start_detection"
    /\ call.outcome = "default" /\ call.before \in {"unopened", "noframes"}
    /\ call.count_before > 0
    /\ detection_active /\ camera = "open" /\ vision.frame_count = 0
    /\ audio_queue = <<"Detección iniciada. Analizando el entorno.">>

(***************************************************************************)
(* Standalone pipeline: frequency of the alerts; where alerts are dropped  *)
(***************************************************************************)
\* the frequency the claim gives for a detection of the frame
ClaimedFrequency(d) ==
    LET base == CASE d.proximity = "close" -> ALERT_CLOSE_FREQUENCY
                  [] d.proximity = "medium" -> ALERT_MEDIUM_FREQUENCY
                  [] OTHER -> ALERT_FAR_FREQUENCY
    IN  IF d.name = "person" THEN (base * 11) \div 10
        ELSE IF d.name \in {"car", "bus", "truck", "motorcycle", "bicycle"}
        THEN (base * 9) \div 10
        ELSE base

\* C29 as stated: the Alert Message the detection loop queues for a detection has
\* the proximity's base frequency, times 1.1 for a person, times 0.9 for a car,
\* bus, truck, motorcycle or bicycle
C29_Orig ==
    \A i \in DOMAIN frame_yield :
        frame_yield[i].alerts > 0 => frame_yield[i].frequency = ClaimedFrequency(frame[i])

\* C29, the failing case: a close car in the centre zone is queued at the base
\* frequency of close objects
C29_VehicleUnscaled ==
    ~ \E i \in DOMAIN frame_yield :
         /\ frame[i].name = "car" /\ frame[i].proximity = "close"
         /\ frame_yield[i].alerts = 1
         /\ frame_yield[i].frequency = ALERT_CLOSE_FREQUENCY

\* C30 as stated: no obstacle message in the queue was fired less than the debounce
\* interval after a tone of its key started, and no obstacle message the worker
\* takes while alerts are enabled is dropped
C30_Orig ==
    /\ \A k \in 1..Len(alert_queue) :
          LET m == alert_queue[k]
          IN  m.type = "obstacle"
                 => ~Debounced(last_alert_time, AlertKey(m), m.fired)
    /\ \A j \in AlertLogIdx :
          alert_log[j].key[1] = "obstacle" => alert_log[j].outcome # "debounced"

\* i started the last tone of j's key before the worker took j
LastToneBefore(i, j) ==
    /\ i < j /\ SameKey(i, j) /\ IsPlayed(i)
    /\ \A k \in AlertLogIdx : (i < k /\ k < j /\ SameKey(i, k)) => ~IsPlayed(k)

\* C30: alerts are deduplicated when the worker takes them from the queue, not when
\* they are queued: a message taken while alerts are enabled is dropped exactly
\* when the last tone of its (type, frequency) pair started less than the debounce
\* interval before the take, and is played otherwise, whenever it was fired
C30_DedupAtPlayback ==
    \A j \in AlertLogIdx :
        alert_log[j].outcome # "disabled"
            => (alert_log[j].outcome = "debounced"
                  <=> \E i \in AlertLogIdx :
                         /\ LastToneBefore(i, j)
                         /\ alert_log[j].taken - alert_log[i].taken < ALERT_DEBOUNCE_TIME)

\* an obstacle alert fired within the debounce interval of the last tone of its
\* pair, queued all the same, and played because the worker took it later
C30_Witness ==
    \E i, j \in AlertLogIdx :
        /\ LastToneBefore(i, j)
        /\ alert_log[j].key[1] = "obstacle"
        /\ alert_log[j].fired >= alert_log[i].taken
        /\ alert_log[j].fired - alert_log[i].taken < ALERT_DEBOUNCE_TIME
        /\ IsPlayed(j)

\* A detection of the current frame whose turn in the announcing loop is over
Announced(i) ==
    /\ det_pc \in {"announce", "idle"}
    /\ i \in 1..Len(frame_yield)
    /\ \A k \in 1..Len(objects_to_announce) : objects_to_announce[k].idx # i

\* C31 (as stated): with the Voice Announcer enabled, every detection of a
\* processed frame that is close, or in the center zone and close or medium,
\* has led to a call of announce_close_object, whatever the engine selection.
C31_Orig ==
    \A i \in 1..Len(frame_yield) :
        (/\ Announced(i)
         /\ voice_enabled
         /\ should_announce(frame[i].proximity, frame[i].is_center))
        => frame_yield[i].calls = 1

\* C31: the state the code reaches with the cloud engine selected: a close
\* person in the center zone went through the announcing loop without a call.
C31_CloudEngineNeverCalled ==
    ~(/\ engine_name = "gtts"
      /\ voice_enabled
      /\ Announced(1)
      /\ frame = PersonScene
      /\ frame_yield[1].calls = 0)

\* C31: with the local engine built, every qualifying detection is handed to
\* announce_close_object.
C31_LocalEngineCalled ==
    (engine_name = "pyttsx3" /\ engine) => C31_Orig

(***************************************************************************)
(* Standalone orchestrator: the shared list of current detections          *)
(***************************************************************************)
\* the records reachable from the published list
Published == {shared.current_detections[k] : k \in 1..Len(shared.current_detections)}

\* C32: the list itself is written and copied only by the holder of the lock
C32_ListUnderLock ==
    /\ shared.det.pc = "locked" => shared.detections_lock = "det"
    /\ shared.cap.pc = "locked" => shared.detections_lock = "cap"
    /\ shared.detections_lock = "free" => (shared.det.pc # "locked" /\ shared.cap.pc # "locked")

\* C32 (as stated): the list is accessed under the lock, the detection loop
\* writes no record that is reachable from the published list, and the capture
\* loop never reads a record while the detection loop is writing it.
C32_Orig ==
    /\ C32_ListUnderLock
    /\ shared.det.writing \notin Published
    /\ ~(shared.cap.reading # NoRef /\ shared.cap.reading = shared.det.writing)

\* C32: the state the code reaches: the capture loop reads the fields of a
\* record, holding no lock, while the detection loop stores into that record
C32_RecordSharedUnlocked ==
    ~(/\ shared.cap.reading # NoRef
      /\ shared.cap.reading = shared.det.writing
      /\ shared.detections_lock = "free")

(***************************************************************************)
(* Obstacle Alert System: disabling while other threads are in a call      *)
(***************************************************************************)
\* C33 (as stated): once set_enabled(False) or stop() has returned, and until
\* alerts are enabled again, the alert queue is empty and no tone starts,
\* whatever the producers and the playback worker were in the middle of.
C33_Orig ==
    alert_calls.off => (alert_queue = <<>> /\ alert_calls.late = 0)

\* C33: a producer that read enabled before the call puts its message after
\* the queue was drained
C33_StaleMessageQueued ==
    ~(alert_calls.off /\ ~alert_enabled /\ alert_queue # <<>>)

\* C33: a worker that read enabled before the call starts its tone after the
\* call has returned
C33_ToneAfterDisable ==
    ~(alert_calls.off /\ ~alert_enabled /\ alert_calls.late > 0)


(***************************************************************************)
(* Simple noise detector: the intensity of a chunk                         *)
(***************************************************************************)
\* C37 (as stated): detect_noise returns the event of the true root mean
\* square of the chunk: none when it does not exceed the threshold, else the
\* intensity and its level.
C37_Orig ==
    (fn_call.fn = "detect_noise" /\ fn_call.done)
    => fn_call.result = TrueNoiseEvent(fn_call.chunk)

\* C37: no chunk yields an event: the int16 squares never exceed 32767, so the
\* value compared with the threshold stays below 0.006 (or is nan)
C37_NeverAnEvent ==
    (fn_call.fn = "detect_noise" /\ fn_call.done) => ~fn_call.result.has_noise

\* C37: a chunk whose true intensity is very high and for which nothing is returned
C37_LoudChunkSilent ==
    ~(/\ fn_call.fn = "detect_noise" /\ fn_call.done
      /\ TrueNoiseEvent(fn_call.chunk).level = "muy alto"
      /\ ~fn_call.result.has_noise)

(***************************************************************************)
(* Browser variant: inference in a detection pass; the noise detector      *)
(* across Stop and Start                                                   *)
(***************************************************************************)
\* C34 (as stated): every detection pass, the first after Start detection
\* included, runs object-detection inference on the frame of its cycle.
C34_Orig ==
    (cycle.ran /\ cycle.detected) => (cycle.inferred /\ vision.ran)

\* C34: the first pass after Start detection: detect_objects counted the frame
\* and returned the empty list without running the model
C34_FirstPassSkipped ==
    ~(/\ cycle.ran /\ cycle.detected
      /\ vision.calls = 1 /\ vision.frame_count = 1
      /\ ~vision.ran /\ vision.out = <<>>)

\* C34: a pass runs inference exactly when the agent's frame counter reaches a
\* multiple of YOLO_PROCESS_EVERY_N_FRAMES
C34_EveryNthPass ==
    (cycle.ran /\ cycle.detected)
    => (vision.ran <=> vision.frame_count % YOLO_PROCESS_EVERY_N_FRAMES = 0)

\* C38 (as stated): whenever detection is active and the session has a noise
\* detector, the detector is listening, also after a Stop followed by a Start.
C38_Orig ==
    (detection_active /\ audio_det.present) => ReadsChunk(audio_det)

\* C38: a detection pass of a restarted session in which detect_noise returned
\* at its first test: the stream was closed by Stop and Start did not reopen it
C38_DeafAfterRestart ==
    ~(/\ detection_active /\ cycle.ran /\ cycle.detected
      /\ audio_det.present /\ audio_det.stream = "closed"
      /\ ~cycle.sampled)

\* C38: until the first Stop the detector listens and every pass samples
C38_ListensUntilStop ==
    audio_det.stream = "open"
    => (audio_det.is_listening /\ (cycle.detected => cycle.sampled))

(***************************************************************************)
(* Description cleaning: length and ending of the result                   *)
(***************************************************************************)
\* C35 (as stated): the cleaned description is at most MAX_DESCRIPTION_LENGTH
\* characters long and, when it is not empty, ends with an end mark.
C35_Orig ==
    (fn_call.fn = "clean" /\ fn_call.done)
    => /\ Len(fn_call.result) <= MAX_DESCRIPTION_LENGTH
       /\ fn_call.result # <<>> => fn_call.result[Len(fn_call.result)] \in EndMarks

\* C35: a text whose first MAX_DESCRIPTION_LENGTH characters hold no blank and no
\* end mark past 70% comes back one character longer than the maximum
C35_OneTooLong ==
    ~(/\ fn_call.fn = "clean" /\ fn_call.done
      /\ rfind(Prefix(fn_call.text, MAX_DESCRIPTION_LENGTH), " ") = -1
      /\ Len(fn_call.result) = MAX_DESCRIPTION_LENGTH + 1)

\* C35: the result never exceeds the maximum by more than the appended period,
\* and a result that is not empty ends with an end mark
C35_EndMarkAndSlack ==
    (fn_call.fn = "clean" /\ fn_call.done)
    => /\ Len(fn_call.result) <= MAX_DESCRIPTION_LENGTH + 1
       /\ fn_call.result # <<>> => fn_call.result[Len(fn_call.result)] \in EndMarks

(***************************************************************************)
(* Database Manager: the backend construction ends with                    *)
(***************************************************************************)
\* the database named by DATABASE_URL accepts connections
Reachable(cfg) == cfg.database_url # "none" /\ cfg.connect # "fail"

\* C36 (as stated): the managed client when URL and key are configured, the
\* library is available and the client initializes; in every other case, the
\* database being reachable, a direct connection pool; never both.
C36_Orig ==
    (fn_call.fn = "DatabaseManager" /\ fn_call.done /\ Reachable(fn_call.cfg))
    => LET cfg == fn_call.cfg
           r == fn_call.result
       IN  IF cfg.configured /\ cfg.library /\ cfg.create_client = "ok"
           THEN r.use_supabase /\ r.supabase_client = "client" /\ r.connection_pool = "none"
           ELSE ~r.use_supabase /\ r.supabase_client = "none" /\ r.connection_pool = "pool"

\* C36: URL and key configured, the client library missing: the direct path
\* runs without psycopg2 and ends with no pool although the database is reachable
C36_LibraryMissingNoBackend ==
    ~(/\ fn_call.fn = "DatabaseManager" /\ fn_call.done
      /\ fn_call.cfg.configured /\ ~fn_call.cfg.library
      /\ fn_call.cfg.database_url = "local" /\ fn_call.cfg.connect = "ok"
      /\ fn_call.result = NoBackend)

\* C36: the client fails to initialize: no pool is created in its place
C36_ClientFailsNoBackend ==
    ~(/\ fn_call.fn = "DatabaseManager" /\ fn_call.done
      /\ fn_call.cfg.configured /\ fn_call.cfg.library
      /\ fn_call.cfg.create_client = "raises" /\ Reachable(fn_call.cfg)
      /\ fn_call.result = NoBackend)

\* C36: never two backends; without URL and key a reachable database gives the
\* pool; with URL, key, library and a client that initializes, the client
C36_HoldsElsewhere ==
    (fn_call.fn = "DatabaseManager" /\ fn_call.done)
    => LET cfg == fn_call.cfg
           r == fn_call.result
       IN  /\ ~(r.supabase_client = "client" /\ r.connection_pool = "pool")
           /\ r.use_supabase <=> r.supabase_client = "client"
           /\ (~cfg.configured /\ Reachable(cfg)) => r.connection_pool = "pool"
           /\ (cfg.configured /\ cfg.library /\ cfg.create_client = "ok")
                 => r.supabase_client = "client"


\* ---------------------------------------------------------------------------
\* C39: a text returned from the cache was generated by a request of the same
\* detail mode as the request that receives it
C39_Orig ==
    gen.ran /\ call.hit => call.cached_mode = Mode(call.detailed)

\* the key of a stored text is made of the detections alone: a detailed request is
\* answered with the text a concise request stored for the same detections
C39_ConciseTextForDetailed ==
    /\ gen.ran /\ gen.hit /\ call.detailed
    /\ call.cached_mode = Mode(FALSE)
    /\ gen.returned \in CacheTexts
    /\ ~gen.model_called

\* what the code does keep: a hit returns the stored text of the key of the
\* detections, whatever the mode of the request
C39_HitReturnsStoredText ==
    gen.ran /\ gen.hit =>
        /\ call.hit
        /\ gen.entry # <<>>
        /\ gen.returned = gen.entry[1].descripcion
        /\ call.cached_mode # NoMode

\* ---------------------------------------------------------------------------
\* the messages the worker has handled, oldest first, once the step is taken
Handled(log) == [i \in 1..Len(log) |-> <<log[i].key, log[i].fired>>]

\* C40: the worker handles one message per step and it is always the oldest
\* waiting one, whatever its priority; the queue changes only by a message
\* added at its tail, the oldest message taken, or the drain of a disable; and
\* no message is taken while a tone is playing
C40_PlaybackOrder ==
    [][ /\ alert_log' # alert_log =>
              /\ alert_pc = "idle"
              /\ alert_queue # <<>>
              /\ alert_log' = Append(alert_log, alert_log'[Len(alert_log')])
              /\ Handled(alert_log')[Len(alert_log')]
                     = <<AlertKey(Head(alert_queue)), Head(alert_queue).fired>>
              /\ alert_queue' = Tail(alert_queue)
        /\ alert_queue' # alert_queue =>
              \/ alert_queue # <<>> /\ alert_queue' = Tail(alert_queue)
                                    /\ alert_log' # alert_log
              \/ /\ Len(alert_queue') = Len(alert_queue) + 1
                 /\ SubSeq(alert_queue', 1, Len(alert_queue)) = alert_queue
              \/ alert_queue' = <<>> /\ alert_enabled /\ ~alert_enabled'
      ]_vars

\* a siren of high priority was queued while an obstacle alert of normal priority
\* was still waiting, and was played after it
C40_Witness ==
    \E i, j \in 1..Len(alert_log) :
        /\ i < j
        /\ alert_log[i].key[1] = "obstacle"
        /\ alert_log[i].outcome = "played"
        /\ alert_log[j].key = AlertKey(NoiseMessage("siren", 0))
        /\ NoiseMessage("siren", 0).priority = "high"
        /\ alert_log[j].outcome = "played"
        /\ alert_log[j].fired <= alert_log[i].taken

====
